---- MODULE Spec2Model ----
(***************************************************************************)
(* Pachinko: the physics world (src/src/physics.js), the board and ball    *)
(* lifecycle (PachinkoMachine, src/unnamed/part_002) and the score         *)
(* listener of the game (PachinkoGame, src/unnamed/part_000).              *)
(*                                                                         *)
(* Numbers.  The program computes in IEEE doubles; the model computes in   *)
(* fixed point.  A length or a speed is an integer number of 1/SCALE world *)
(* units (per second); SCALE = 700 makes every constant of the board       *)
(* (6/7, 0.05, 0.12, 0.18, 0.35, 0.7, 0.9 ...) an integer.  A time is an   *)
(* integer number of 1/TICKS seconds.  Every product or quotient the code  *)
(* rounds to a double is rounded here to the nearest unit (RoundDiv).      *)
(***************************************************************************)
EXTENDS Integers, Sequences, FiniteSets, TLC

SCALE == 700
TICKS == 600

\* ------------------------------------------------------------------------
\* Arithmetic helpers
\* ------------------------------------------------------------------------
Abs(a) == IF a < 0 THEN -a ELSE a

Min(a, b) == IF a < b THEN a ELSE b

Max(a, b) == IF a > b THEN a ELSE b

\* a / b rounded to the nearest integer (b > 0), halves away from zero
RoundDiv(a, b) ==
    IF a >= 0 THEN (2 * a + b) \div (2 * b)
    ELSE -((2 * (-a) + b) \div (2 * b))

RECURSIVE SqrtSearch(_, _, _)
SqrtSearch(n, lo, hi) ==
    IF lo >= hi THEN lo
    ELSE LET mid == (lo + hi + 1) \div 2
         IN  IF mid * mid <= n THEN SqrtSearch(n, mid, hi)
             ELSE SqrtSearch(n, lo, mid - 1)

\* Math.sqrt on the fixed-point grid: the nearest integer to sqrt(n)
Sqrt(n, bound) ==
    LET f == SqrtSearch(n, 0, bound)
    IN  IF n - f * f > f THEN f + 1 ELSE f

\* Math.sqrt(dx*dx + dy*dy + dz*dz)
Length(dx, dy, dz) ==
    Sqrt(dx * dx + dy * dy + dz * dz, Abs(dx) + Abs(dy) + Abs(dz))

\* ------------------------------------------------------------------------
\* Physics constants (Physics.constructor)
\* ------------------------------------------------------------------------
gravity == -15

restitutionNum == 6

restitutionDen == 10

frictionNum == 98

frictionDen == 100

\* 1/60 s, the largest step Physics.update integrates
FixedStep == TICKS \div 60

\* the threshold 0.1 of the perturbation test
PerturbThreshold == SCALE \div 10

\* ------------------------------------------------------------------------
\* PhysicsBody
\* ------------------------------------------------------------------------
defaultRadius == SCALE \div 5

defaultHeight == SCALE

PhysicsBody(type, position, velocity, radius, height, min, max, isStatic, tag) ==
    [type |-> type, position |-> position, velocity |-> velocity,
     radius |-> radius, height |-> height, min |-> min, max |-> max,
     isStatic |-> isStatic, tag |-> tag]

StaticBox(min, max, tag) ==
    PhysicsBody("box", <<0, 0, 0>>, <<0, 0, 0>>, defaultRadius, defaultHeight,
                min, max, TRUE, tag)

StaticCylinder(position, radius, height, tag) ==
    PhysicsBody("cylinder", position, <<0, 0, 0>>, radius, height,
                <<0, 0, 0>>, <<0, 0, 0>>, TRUE, tag)

StaticSphere(position, radius, tag) ==
    PhysicsBody("sphere", position, <<0, 0, 0>>, radius, defaultHeight,
                <<0, 0, 0>>, <<0, 0, 0>>, TRUE, tag)

BallBody(position, velocity, radius) ==
    PhysicsBody("sphere", position, velocity, radius, defaultHeight,
                <<0, 0, 0>>, <<0, 0, 0>>, FALSE, "ball")

\* ------------------------------------------------------------------------
\* Collision resolver.  Each test returns the ball after the test and the
\* static bodies handed to ball.onCollision during the test.
\* ------------------------------------------------------------------------
Outcome(ball, called) == [ball |-> ball, called |-> called]

\* the reflection with the friction factor applied to the whole velocity
ReflectWithFriction(v, dot, d, distance) ==
    RoundDiv(v * frictionNum, frictionDen)
        - RoundDiv(2 * dot * d * restitutionNum, restitutionDen * distance)

\* velocity -= 2 * dot * n * restitution
Reflect(v, dot, d, distance) ==
    v - RoundDiv(2 * dot * d * restitutionNum, restitutionDen * distance)

\* the test that reflects the velocity only of a ball moving towards the pin
sphereVsSphereApproaching(ball, pin) ==
    LET dx == ball.position[1] - pin.position[1]
        dy == ball.position[2] - pin.position[2]
        dz == ball.position[3] - pin.position[3]
        sq == dx * dx + dy * dy + dz * dz
        minDist == ball.radius + pin.radius
    IN  IF sq < minDist * minDist /\ sq > 0
        THEN LET distance == Length(dx, dy, dz)
                 overlap == minDist - distance
                 pos == << ball.position[1] + RoundDiv(dx * overlap, distance),
                           ball.position[2] + RoundDiv(dy * overlap, distance),
                           ball.position[3] + RoundDiv(dz * overlap, distance) >>
                 dot == RoundDiv(ball.velocity[1] * dx + ball.velocity[2] * dy
                                 + ball.velocity[3] * dz, distance)
                 vel == IF dot < 0
                        THEN << Reflect(ball.velocity[1], dot, dx, distance),
                                Reflect(ball.velocity[2], dot, dy, distance),
                                Reflect(ball.velocity[3], dot, dz, distance) >>
                        ELSE ball.velocity
             IN  Outcome([ball EXCEPT !.position = pos, !.velocity = vel], <<pin>>)
        ELSE Outcome(ball, <<>>)

sphereVsSphere(ball, pin) ==
    LET dx == ball.position[1] - pin.position[1]
        dy == ball.position[2] - pin.position[2]
        dz == ball.position[3] - pin.position[3]
        sq == dx * dx + dy * dy + dz * dz
        minDist == ball.radius + pin.radius
    IN  IF sq < minDist * minDist /\ sq > 0
        THEN LET distance == Length(dx, dy, dz)
                 overlap == minDist - distance
                 pos == << ball.position[1] + RoundDiv(dx * overlap, distance),
                           ball.position[2] + RoundDiv(dy * overlap, distance),
                           ball.position[3] + RoundDiv(dz * overlap, distance) >>
                 dot == RoundDiv(ball.velocity[1] * dx + ball.velocity[2] * dy
                                 + ball.velocity[3] * dz, distance)
                 vel == << Reflect(ball.velocity[1], dot, dx, distance),
                           Reflect(ball.velocity[2], dot, dy, distance),
                           Reflect(ball.velocity[3], dot, dz, distance) >>
             IN  Outcome([ball EXCEPT !.position = pos, !.velocity = vel], <<pin>>)
        ELSE Outcome(ball, <<>>)

\* sphereVsCylinder without the test of the height band
sphereVsCylinderAnyHeight(ball, cylinder) ==
    LET dx == ball.position[1] - cylinder.position[1]
        dz == ball.position[3] - cylinder.position[3]
        sq == dx * dx + dz * dz
        minDist == ball.radius + cylinder.radius
    IN  IF sq < minDist * minDist /\ sq > 0
        THEN LET horizontalDistance == Length(dx, 0, dz)
                 overlap == minDist - horizontalDistance
                 pos == << ball.position[1] + RoundDiv(dx * overlap, horizontalDistance),
                           ball.position[2],
                           ball.position[3] + RoundDiv(dz * overlap, horizontalDistance) >>
                 dot == RoundDiv(ball.velocity[1] * dx + ball.velocity[3] * dz,
                                 horizontalDistance)
                 vel == << Reflect(ball.velocity[1], dot, dx, horizontalDistance),
                           ball.velocity[2],
                           Reflect(ball.velocity[3], dot, dz, horizontalDistance) >>
             IN  Outcome([ball EXCEPT !.position = pos, !.velocity = vel], <<cylinder>>)
        ELSE Outcome(ball, <<>>)

\* the test that takes the normal (1, 0, 0) for a ball on the axis of the
\* cylinder
sphereVsCylinderOnAxis(ball, cylinder) ==
    LET onAxis == /\ ball.position[1] = cylinder.position[1]
                  /\ ball.position[3] = cylinder.position[3]
        dx == IF onAxis THEN 1 ELSE ball.position[1] - cylinder.position[1]
        dz == ball.position[3] - cylinder.position[3]
        sq == dx * dx + dz * dz
        minDist == ball.radius + cylinder.radius
        half == RoundDiv(cylinder.height, 2)
        withinHeight == /\ ball.position[2] >= cylinder.position[2] - half
                        /\ ball.position[2] <= cylinder.position[2] + half
    IN  IF sq < minDist * minDist /\ withinHeight
        THEN LET horizontalDistance == Length(dx, 0, dz)
                 overlap == IF onAxis THEN minDist ELSE minDist - horizontalDistance
                 pos == << ball.position[1] + RoundDiv(dx * overlap, horizontalDistance),
                           ball.position[2],
                           ball.position[3] + RoundDiv(dz * overlap, horizontalDistance) >>
                 dot == RoundDiv(ball.velocity[1] * dx + ball.velocity[3] * dz,
                                 horizontalDistance)
                 vel == << Reflect(ball.velocity[1], dot, dx, horizontalDistance),
                           ball.velocity[2],
                           Reflect(ball.velocity[3], dot, dz, horizontalDistance) >>
             IN  Outcome([ball EXCEPT !.position = pos, !.velocity = vel], <<cylinder>>)
        ELSE Outcome(ball, <<>>)

sphereVsCylinder(ball, cylinder) ==
    LET dx == ball.position[1] - cylinder.position[1]
        dz == ball.position[3] - cylinder.position[3]
        sq == dx * dx + dz * dz
        minDist == ball.radius + cylinder.radius
        \* cylinder.height / 2
        half == RoundDiv(cylinder.height, 2)
        withinHeight == /\ ball.position[2] >= cylinder.position[2] - half
                        /\ ball.position[2] <= cylinder.position[2] + half
    IN  IF sq < minDist * minDist /\ withinHeight /\ sq > 0
        THEN LET horizontalDistance == Length(dx, 0, dz)
                 overlap == minDist - horizontalDistance
                 pos == << ball.position[1] + RoundDiv(dx * overlap, horizontalDistance),
                           ball.position[2],
                           ball.position[3] + RoundDiv(dz * overlap, horizontalDistance) >>
                 dot == RoundDiv(ball.velocity[1] * dx + ball.velocity[3] * dz,
                                 horizontalDistance)
                 vel == << Reflect(ball.velocity[1], dot, dx, horizontalDistance),
                           ball.velocity[2],
                           Reflect(ball.velocity[3], dot, dz, horizontalDistance) >>
             IN  Outcome([ball EXCEPT !.position = pos, !.velocity = vel], <<cylinder>>)
        ELSE Outcome(ball, <<>>)

\* sphereVsBox with the separation left out: the velocity is reflected and the
\* callback made, the ball stays where it was
sphereVsBoxNoPush(ball, box) ==
    LET closestX == Max(box.min[1], Min(ball.position[1], box.max[1]))
        closestY == Max(box.min[2], Min(ball.position[2], box.max[2]))
        closestZ == Max(box.min[3], Min(ball.position[3], box.max[3]))
        dx == ball.position[1] - closestX
        dy == ball.position[2] - closestY
        dz == ball.position[3] - closestZ
        sq == dx * dx + dy * dy + dz * dz
    IN  IF sq < ball.radius * ball.radius /\ sq > 0
        THEN LET distance == Length(dx, dy, dz)
                 dot == RoundDiv(ball.velocity[1] * dx + ball.velocity[2] * dy
                                 + ball.velocity[3] * dz, distance)
                 vel == << Reflect(ball.velocity[1], dot, dx, distance),
                           Reflect(ball.velocity[2], dot, dy, distance),
                           Reflect(ball.velocity[3], dot, dz, distance) >>
             IN  Outcome([ball EXCEPT !.velocity = vel], <<box>>)
        ELSE IF sq = 0
        THEN Outcome([ball EXCEPT
                        !.position[2] = ball.position[2] + ball.radius,
                        !.velocity[2] = RoundDiv(Abs(ball.velocity[2]) * restitutionNum,
                                                 restitutionDen)],
                     <<>>)
        ELSE Outcome(ball, <<>>)

\* the test whose branch for a centre inside the box scales the vertical
\* velocity by the restitution and keeps its sign
sphereVsBoxKeepsSign(ball, box) ==
    LET closestX == Max(box.min[1], Min(ball.position[1], box.max[1]))
        closestY == Max(box.min[2], Min(ball.position[2], box.max[2]))
        closestZ == Max(box.min[3], Min(ball.position[3], box.max[3]))
        dx == ball.position[1] - closestX
        dy == ball.position[2] - closestY
        dz == ball.position[3] - closestZ
        sq == dx * dx + dy * dy + dz * dz
    IN  IF sq < ball.radius * ball.radius /\ sq > 0
        THEN LET distance == Length(dx, dy, dz)
                 overlap == ball.radius - distance
                 pos == << ball.position[1] + RoundDiv(dx * overlap, distance),
                           ball.position[2] + RoundDiv(dy * overlap, distance),
                           ball.position[3] + RoundDiv(dz * overlap, distance) >>
                 dot == RoundDiv(ball.velocity[1] * dx + ball.velocity[2] * dy
                                 + ball.velocity[3] * dz, distance)
                 vel == << Reflect(ball.velocity[1], dot, dx, distance),
                           Reflect(ball.velocity[2], dot, dy, distance),
                           Reflect(ball.velocity[3], dot, dz, distance) >>
             IN  Outcome([ball EXCEPT !.position = pos, !.velocity = vel], <<box>>)
        ELSE IF sq = 0
        THEN Outcome([ball EXCEPT
                        !.position[2] = ball.position[2] + ball.radius,
                        !.velocity[2] = RoundDiv(ball.velocity[2] * restitutionNum,
                                                 restitutionDen)],
                     <<>>)
        ELSE Outcome(ball, <<>>)

sphereVsBox(ball, box) ==
    LET closestX == Max(box.min[1], Min(ball.position[1], box.max[1]))
        closestY == Max(box.min[2], Min(ball.position[2], box.max[2]))
        closestZ == Max(box.min[3], Min(ball.position[3], box.max[3]))
        dx == ball.position[1] - closestX
        dy == ball.position[2] - closestY
        dz == ball.position[3] - closestZ
        sq == dx * dx + dy * dy + dz * dz
    IN  IF sq < ball.radius * ball.radius /\ sq > 0
        THEN LET distance == Length(dx, dy, dz)
                 overlap == ball.radius - distance
                 pos == << ball.position[1] + RoundDiv(dx * overlap, distance),
                           ball.position[2] + RoundDiv(dy * overlap, distance),
                           ball.position[3] + RoundDiv(dz * overlap, distance) >>
                 dot == RoundDiv(ball.velocity[1] * dx + ball.velocity[2] * dy
                                 + ball.velocity[3] * dz, distance)
                 vel == << Reflect(ball.velocity[1], dot, dx, distance),
                           Reflect(ball.velocity[2], dot, dy, distance),
                           Reflect(ball.velocity[3], dot, dz, distance) >>
             IN  Outcome([ball EXCEPT !.position = pos, !.velocity = vel], <<box>>)
        ELSE IF sq = 0
        THEN Outcome([ball EXCEPT
                        !.position[2] = ball.position[2] + ball.radius,
                        !.velocity[2] = RoundDiv(Abs(ball.velocity[2]) * restitutionNum,
                                                 restitutionDen)],
                     <<>>)
        ELSE Outcome(ball, <<>>)

checkCollision(ball, staticBody) ==
    IF staticBody.type = "sphere" THEN sphereVsSphere(ball, staticBody)
    ELSE IF staticBody.type = "box" THEN sphereVsBox(ball, staticBody)
    ELSE IF staticBody.type = "cylinder" THEN sphereVsCylinder(ball, staticBody)
    ELSE Outcome(ball, <<>>)

\* the tests of the static bodies lo..hi, each applied to the ball as it was
\* before the first of them; the last contact found decides the ball
RECURSIVE CollideRangeFromStart(_, _, _, _)
CollideRangeFromStart(out, statics, lo, hi) ==
    IF lo > hi THEN out
    ELSE LET r == checkCollision(out.ball, statics[hi])
             rest == CollideRangeFromStart(out, statics, lo, hi - 1)
         IN  IF r.called # << >> \/ r.ball # out.ball
             THEN Outcome(r.ball, rest.called \o r.called)
             ELSE rest

\* for (const staticBody of this.staticBodies) this.checkCollision(body, staticBody)
\* for the static bodies lo..hi, in order.  The range is split in halves and
\* the first half is evaluated (bound by the set constructor) before the
\* second starts, which keeps the evaluation shallow.
RECURSIVE CollideRange(_, _, _, _)
CollideRange(out, statics, lo, hi) ==
    IF lo > hi THEN out
    ELSE IF lo = hi
    THEN LET r == checkCollision(out.ball, statics[lo])
         IN  Outcome(r.ball, out.called \o r.called)
    ELSE LET mid == (lo + hi) \div 2
         IN  CHOOSE last \in { CollideRange(first, statics, mid + 1, hi) :
                               first \in {CollideRange(out, statics, lo, mid)} } : TRUE

CollideAll(out, statics) == CollideRange(out, statics, 1, Len(statics))

\* the frame time used as it comes, without the cap of 1/60 s
fixedDeltaUnclamped(deltaTime) == deltaTime

\* const fixedDelta = Math.min(deltaTime, 1/60)
fixedDelta(deltaTime) == Min(deltaTime, FixedStep)

\* if (|v[0]| > 0.1 || |v[1]| > 0.1) v[0] += (Math.random() - 0.5) * 0.1
Perturb(out, draw) ==
    IF \/ Abs(out.ball.velocity[1]) > PerturbThreshold
       \/ Abs(out.ball.velocity[2]) > PerturbThreshold
    THEN Outcome([out.ball EXCEPT !.velocity[1] = out.ball.velocity[1] + draw], out.called)
    ELSE out

\* the integration step with the friction factor applied to all three
\* velocity components
IntegrateDragOnFall(body, fd) ==
    LET vy == RoundDiv((body.velocity[2] + RoundDiv(gravity * SCALE * fd, TICKS))
                       * frictionNum, frictionDen)
        vx == RoundDiv(body.velocity[1] * frictionNum, frictionDen)
        vz == RoundDiv(body.velocity[3] * frictionNum, frictionDen)
        pos == << body.position[1] + RoundDiv(vx * fd, TICKS),
                  body.position[2] + RoundDiv(vy * fd, TICKS),
                  body.position[3] + RoundDiv(vz * fd, TICKS) >>
    IN  [body EXCEPT !.position = pos, !.velocity = <<vx, vy, vz>>]

\* gravity, friction and the position update of the loop of Physics.update
Integrate(body, fd) ==
    LET vy == body.velocity[2] + RoundDiv(gravity * SCALE * fd, TICKS)
        vx == RoundDiv(body.velocity[1] * frictionNum, frictionDen)
        vz == RoundDiv(body.velocity[3] * frictionNum, frictionDen)
        pos == << body.position[1] + RoundDiv(vx * fd, TICKS),
                  body.position[2] + RoundDiv(vy * fd, TICKS),
                  body.position[3] + RoundDiv(vz * fd, TICKS) >>
    IN  [body EXCEPT !.position = pos, !.velocity = <<vx, vy, vz>>]

\* the loop body without  if (body.isStatic) continue
UpdateBodyAnyBody(body, statics, deltaTime, draw) ==
    CHOOSE out \in
        { Perturb(hit, draw) :
            hit \in { CollideAll(Outcome(moved, <<>>), statics) :
                moved \in {Integrate(body, fixedDelta(deltaTime))} } } : TRUE

\* One iteration of the loop of Physics.update: body, the world's static
\* bodies, the frame time and the value of (Math.random() - 0.5) * 0.1.
\* Each stage is bound to its value before the next one reads it.
UpdateBody(body, statics, deltaTime, draw) ==
    IF body.isStatic THEN Outcome(body, <<>>)
    ELSE CHOOSE out \in
            { Perturb(hit, draw) :
                hit \in { CollideAll(Outcome(moved, <<>>), statics) :
                    moved \in {Integrate(body, fixedDelta(deltaTime))} } } : TRUE

\* ------------------------------------------------------------------------
\* Board layout (PachinkoMachine constructor, createFrame, createPins,
\* createSlots)
\* ------------------------------------------------------------------------
width == 6 * SCALE

height == 12 * SCALE

\* 0.8
depth == (8 * SCALE) \div 10

\* 0.5
wallThickness == SCALE \div 2

createFrame ==
    << StaticBox(<<-(width \div 2) - wallThickness, 0, -depth>>,
                 <<-(width \div 2), height, depth>>, "wall"),
       StaticBox(<<width \div 2, 0, -depth>>,
                 <<(width \div 2) + wallThickness, height, depth>>, "wall"),
       StaticBox(<<-(width \div 2), 0, -depth - wallThickness>>,
                 <<width \div 2, height, -(depth \div 2)>>, "wall"),
       StaticBox(<<-(width \div 2), 0, depth \div 2>>,
                 <<width \div 2, height, depth>>, "wall") >>

\* 0.12
pinRadius == (12 * SCALE) \div 100

\* 0.4
pinHeight == (4 * SCALE) \div 10

\* 0.9
rowSpacing == (9 * SCALE) \div 10

\* 0.7
colSpacing == (7 * SCALE) \div 10

startY == height - 2 * SCALE

endY == 2 * SCALE

\* Math.floor(this.width / colSpacing) - 1
numPins == (width \div colSpacing) - 1

\* the rows of the loop  for (y = startY; y > endY; y -= rowSpacing)
numRows == ((startY - endY - 1) \div rowSpacing) + 1

PinAt(row, i) ==
    LET y == startY - row * rowSpacing
        offset == (row % 2) * (colSpacing \div 2)
        x == -(width \div 2) + colSpacing + i * colSpacing + offset
    IN  StaticCylinder(<<x, y, 0>>, pinRadius, pinHeight, "pin")

createPins ==
    [k \in 1..(numRows * numPins) |->
        PinAt((k - 1) \div numPins, (k - 1) % numPins)]

numSlots == 7

slotWidth == width \div numSlots

\* 1.5
slotHeight == (15 * SCALE) \div 10

\* 0.1
dividerWidth == SCALE \div 10

pointValues == <<10, 50, 100, 500, 100, 50, 10>>

\* const x = -this.width / 2 + slotWidth / 2 + i * slotWidth, i = 0..6
SlotCentre(i) == -(width \div 2) + (slotWidth \div 2) + i * slotWidth

Divider(i) ==
    StaticBox(<<SlotCentre(i) + (slotWidth \div 2) - (dividerWidth \div 2), 0, -depth>>,
              <<SlotCentre(i) + (slotWidth \div 2) + (dividerWidth \div 2), slotHeight, depth>>,
              "divider")

Floor == StaticBox(<<-(width \div 2), -SCALE, -depth>>, <<width \div 2, 0, depth>>, "floor")

\* a slot record whose range ends at the faces of the dividers beside it
SlotRecordInsideDividers(i) ==
    [x |-> SlotCentre(i),
     minX |-> SlotCentre(i) - (slotWidth \div 2) + (dividerWidth \div 2),
     maxX |-> SlotCentre(i) + (slotWidth \div 2) - (dividerWidth \div 2),
     points |-> pointValues[i + 1]]

\* a slot record that takes the point value of the slot to its right
SlotRecordNextValue(i) ==
    [x |-> SlotCentre(i),
     minX |-> SlotCentre(i) - (slotWidth \div 2),
     maxX |-> SlotCentre(i) + (slotWidth \div 2),
     points |-> pointValues[((i + 1) % numSlots) + 1]]

\* the record createSlots pushes for slot i (i = 0..6)
SlotRecord(i) ==
    [x |-> SlotCentre(i),
     minX |-> SlotCentre(i) - (slotWidth \div 2),
     maxX |-> SlotCentre(i) + (slotWidth \div 2),
     points |-> pointValues[i + 1]]

\* this.slots after createSlots (index 1 is the code's slot 0)
slots == [k \in 1..numSlots |-> SlotRecord(k - 1)]

\* the static bodies createSlots registers: the dividers, then the floor
createSlots == [k \in 1..(numSlots - 1) |-> Divider(k - 1)] \o <<Floor>>

\* Physics.staticBodies after PachinkoMachine.init
staticBodies == createFrame \o createPins \o createSlots

\* launchBall: radius and launch point
ballRadius == (18 * SCALE) \div 100

launchX == (width \div 2) - (SCALE \div 2)

launchY == height - (SCALE \div 2)

launchZ == 0

\* launch power is a number of 1/POWER: a frame of n/TICKS s adds n to the
\* power that is charged at 0.5 per second
POWER == 2 * TICKS

\* the body launchBall creates; jitter is the value of (Math.random() - 0.5) * 2
NewBallBody(power, jitter) ==
    LET baseVelocity == 5 * SCALE + RoundDiv(power * 10 * SCALE, POWER)
        velocityX == -RoundDiv(baseVelocity, 2) + jitter
        velocityY == RoundDiv(baseVelocity * 3, 10)
        velocityZ == 0
    IN  BallBody(<<launchX, launchY, launchZ>>, <<velocityX, velocityY, velocityZ>>,
                 ballRadius)

\* ------------------------------------------------------------------------
\* Bounds of the model
\* ------------------------------------------------------------------------
\* balls launched in one run
MaxBalls == 2

\* a ball is launched within this many frames of construction or of a reset
LaunchWindow == 1

\* launch powers (in 1/POWER): 0.5, the default and the button's, and 2
\* (PachinkoMachine.launchBall takes any number: it does not clamp power)
Powers == {POWER \div 2, 2 * POWER}

\* values of (Math.random() - 0.5) * 2 at launch
Jitters == {0}

\* frame times in 1/TICKS s: 1/60 s and 0.1 s (the cap of gameLoop)
Deltas == {TICKS \div 60, TICKS \div 10}

\* values of (Math.random() - 0.5) * 0.1 in Physics.update
Perturbs == {0}

\* ------------------------------------------------------------------------
\* State
\* ------------------------------------------------------------------------
VARIABLES
    heap,       \* the ball bodies alive: body id -> PhysicsBody
    bodies,     \* Physics.bodies: sequence of body ids
    balls,      \* PachinkoMachine.balls: sequence of [body, scored, onScore]
    score,      \* PachinkoGame.score
    nextId,     \* number of balls created so far
    tick,       \* frames since construction or reset, counted up to LaunchWindow + 1
    events,     \* history: the score events and removals, oldest first
    probe,      \* history: the last operation applied on its own, with its inputs
    statics,    \* Physics.staticBodies: sequence of PhysicsBody
    game        \* PachinkoGame: [ballsRemaining, launchPower, isCharging]

vars == <<heap, bodies, balls, score, nextId, tick, events, probe, statics, game>>

\* this.ballsRemaining = 10 of the constructor and of resetGame
startBalls == 10

\* the fields of PachinkoGame the constructor sets, beside the score
NewGame == [ballsRemaining |-> startBalls, launchPower |-> 0, isCharging |-> FALSE]

NoBody == StaticSphere(<<0, 0, 0>>, 0, "none")

Probe(op, pre, dt, draw, static, called, steps) ==
    [op |-> op, pre |-> pre, dt |-> dt, draw |-> draw, static |-> static,
     called |-> called, steps |-> steps]

NoProbe == Probe("none", NoBody, 0, 0, NoBody, <<>>, 0)

Range(seq) == {seq[k] : k \in 1..Len(seq)}

\* Array.prototype.indexOf: the first index holding x, 0 when there is none
IndexOf(seq, x) ==
    IF \E k \in 1..Len(seq) : seq[k] = x
    THEN CHOOSE k \in 1..Len(seq) : seq[k] = x /\ \A j \in 1..(k - 1) : seq[j] # x
    ELSE 0

\* Array.prototype.splice(index, 1), index counted from 1
Splice(seq, k) == [j \in 1..(Len(seq) - 1) |-> IF j < k THEN seq[j] ELSE seq[j + 1]]

\* removeBody with the splice left out: the body stays registered
removeBodyKeeps(bs, body) == bs

\* removeBody without the test of the index: splice(-1, 1) takes the last body
removeBodyUnchecked(bs, body) ==
    LET index == IndexOf(bs, body)
    IN  IF index # 0 THEN Splice(bs, index)
        ELSE IF bs # << >> THEN Splice(bs, Len(bs)) ELSE bs

\* Physics.removeBody
removeBody(bs, body) ==
    LET index == IndexOf(bs, body)
    IN  IF index # 0 THEN Splice(bs, index) ELSE bs

\* the bodies some list still refers to
Live(bs, bls) == Range(bs) \cup {bls[k].body : k \in 1..Len(bls)}

Collect(h, bs, bls) == [id \in Live(bs, bls) |-> h[id]]

Init ==
    /\ heap = << >>
    /\ bodies = << >>
    /\ balls = << >>
    /\ score = 0
    /\ nextId = 0
    /\ tick = 0
    /\ events = << >>
    /\ probe = NoProbe
    /\ statics = staticBodies
    /\ game = NewGame

\* history: PachinkoMachine.launchBall(power) created the ball
LaunchEvent(id, power) == [kind |-> "launch", ball |-> id, power |-> power]

\* history: resetGame ran when the balls up to id had been created
ResetEvent(id) == [kind |-> "reset", ball |-> id]

\* PachinkoGame.launchBall(power): PachinkoMachine.launchBall(power), one ball
\* less, and the listener put on the handle it returns
launchBall(power, jitter) ==
    /\ game.ballsRemaining > 0
    /\ nextId < MaxBalls
    /\ tick <= LaunchWindow
    /\ LET id == nextId + 1
       IN  /\ heap' = [i \in DOMAIN heap \cup {id} |->
                          IF i = id THEN NewBallBody(power, jitter) ELSE heap[i]]
           /\ bodies' = Append(bodies, id)
           /\ balls' = Append(balls, [body |-> id, scored |-> FALSE, onScore |-> TRUE])
           /\ nextId' = id
    /\ game' = [game EXCEPT !.ballsRemaining = @ - 1]
    /\ UNCHANGED <<score, tick, events, probe, statics>>

\* an update in which every body is also tested against the other bodies of
\* Physics.bodies, taken as spheres where they were before the update
PhysicsUpdateBodiesCollide(h, bs, deltaTime, draws) ==
    [id \in DOMAIN h |->
        IF id \in Range(bs)
        THEN LET others == SelectSeq(bs, LAMBDA o : o # id)
                 spheres == [k \in 1..Len(others) |->
                               StaticSphere(h[others[k]].position, h[others[k]].radius,
                                            "ball")]
             IN  UpdateBody(h[id], statics \o spheres, deltaTime,
                            draws[IndexOf(bs, id)]).ball
        ELSE h[id]]

\* Physics.update(deltaTime): draws[k] is the random value for the k-th body
PhysicsUpdate(h, bs, deltaTime, draws) ==
    [id \in DOMAIN h |->
        IF id \in Range(bs)
        THEN UpdateBody(h[id], statics, deltaTime, draws[IndexOf(bs, id)]).ball
        ELSE h[id]]

\* the range test of the slot scan: x >= slot.minX && x <= slot.maxX
InSlot(x, slot) == x >= slot.minX /\ x <= slot.maxX

\* the slot scan of PachinkoMachine.update: the first slot whose range test
\* x passes (the loop breaks there), 0 when there is none
MatchSlot(x) ==
    IF \E k \in 1..numSlots : InSlot(x, slots[k])
    THEN CHOOSE k \in 1..numSlots :
            InSlot(x, slots[k]) /\ \A j \in 1..(k - 1) : ~InSlot(x, slots[j])
    ELSE 0

\* 0.5: below it a ball is tested against the slots
ScoreY == SCALE \div 2

\* -2: below it a ball is removed
RemoveY == -2 * SCALE

\* the slot-check condition without the scored flag
ShouldCheckSlotsIgnoringFlag(ball, pos) == pos[2] < ScoreY

\* if (!ball.scored && ball.body.position[1] < 0.5)
ShouldCheckSlots(ball, pos) == ~ball.scored /\ pos[2] < ScoreY

\* the removal condition with the threshold one unit too low
ShouldRemoveLate(pos) == pos[2] < RemoveY - SCALE

\* if (ball.body.position[1] < -2)
ShouldRemove(pos) == pos[2] < RemoveY

MachineState(h, bs, bls, sc, ev) ==
    [heap |-> h, bodies |-> bs, balls |-> bls, score |-> sc, events |-> ev]

ScoreEvent(id, points, pos) ==
    [kind |-> "score", ball |-> id, points |-> points, x |-> pos[1], y |-> pos[2]]

RemoveEvent(id, pos) ==
    [kind |-> "remove", ball |-> id, points |-> 0, x |-> pos[1], y |-> pos[2]]

\* the slot check without  ball.scored = true
CheckSlotsForgetsFlag(m, i) ==
    LET ball == m.balls[i]
        pos == m.heap[ball.body].position
        slot == MatchSlot(pos[1])
    IN  IF ShouldCheckSlots(ball, pos) /\ slot # 0 /\ ball.onScore
        THEN [m EXCEPT !.score = m.score + slots[slot].points,
                       !.events = Append(m.events,
                           ScoreEvent(ball.body, slots[slot].points, pos))]
        ELSE m

\* the slot check of the loop body: ball.scored = true; ball.onScore(slot.points),
\* which is PachinkoGame.addScore
CheckSlots(m, i) ==
    LET ball == m.balls[i]
        pos == m.heap[ball.body].position
        slot == MatchSlot(pos[1])
    IN  IF ShouldCheckSlots(ball, pos) /\ slot # 0
        THEN IF ball.onScore
             THEN [m EXCEPT !.balls[i].scored = TRUE,
                            !.score = m.score + slots[slot].points,
                            !.events = Append(m.events,
                                ScoreEvent(ball.body, slots[slot].points, pos))]
             ELSE [m EXCEPT !.balls[i].scored = TRUE]
        ELSE m

\* the removal of the loop body: physics.removeBody(ball.body); balls.splice(i, 1)
RemoveFallen(m, i) ==
    LET ball == m.balls[i]
        pos == m.heap[ball.body].position
    IN  IF ShouldRemove(pos)
        THEN [m EXCEPT !.bodies = removeBody(m.bodies, ball.body),
                       !.balls = Splice(m.balls, i),
                       !.events = Append(m.events, RemoveEvent(ball.body, pos))]
        ELSE m

\* the body of the loop of PachinkoMachine.update for index i
UpdateBall(m, i) ==
    CHOOSE r \in { RemoveFallen(checked, i) : checked \in {CheckSlots(m, i)} } : TRUE

\* the loop run forwards, for (let i = 0; i < this.balls.length; i++): after a
\* splice the next ball has moved to index i and is passed over
UpdateLoopForwards(m, i) ==
    LET RECURSIVE Loop(_, _)
        Loop(n, k) == IF k > Len(n.balls) THEN n
                      ELSE CHOOSE r \in { Loop(next, k + 1) :
                                          next \in {UpdateBall(n, k)} } : TRUE
    IN  Loop(m, 1)

\* for (let i = this.balls.length - 1; i >= 0; i--)
RECURSIVE UpdateLoop(_, _)
UpdateLoop(m, i) ==
    IF i < 1 THEN m
    ELSE CHOOSE r \in { UpdateLoop(n, i - 1) : n \in {UpdateBall(m, i)} } : TRUE

\* PachinkoMachine.update
MachineUpdate(m) == UpdateLoop(m, Len(m.balls))

\* PachinkoGame.update(deltaTime): Physics.update, then PachinkoMachine.update
Frame ==
    \E deltaTime \in Deltas : \E draws \in [1..Len(bodies) -> Perturbs] :
        \E h \in { PhysicsUpdate(heap, bodies, deltaTime, draws) } :
        \E m \in { MachineUpdate(MachineState(h, bodies, balls, score, events)) } :
            /\ bodies' = m.bodies
            /\ balls' = m.balls
            /\ heap' = Collect(m.heap, m.bodies, m.balls)
            /\ score' = m.score
            /\ events' = m.events
            /\ tick' = Min(tick + 1, LaunchWindow + 1)
            /\ nextId' = nextId
            /\ probe' = probe
            /\ statics' = statics
            /\ game' = game

\* reset that empties the list of balls and leaves their bodies registered
MachineResetKeepsBodies(m) ==
    MachineState(m.heap, m.bodies, << >>, m.score, m.events)

\* reset that splices each ball out of the list while it iterates over it, so
\* that every second ball is passed over and stays
MachineResetSkipping(m) ==
    LET RECURSIVE Loop(_, _)
        Loop(bs, k) == IF k > Len(m.balls) THEN bs
                       ELSE Loop(removeBody(bs, m.balls[k].body), k + 2)
        kept == {k \in 1..Len(m.balls) : k % 2 = 0}
    IN  MachineState(m.heap, Loop(m.bodies, 1),
                     [j \in 1..Cardinality(kept) |-> m.balls[2 * j]], m.score, m.events)

\* a reset whose loop stops one ball short: the last ball of the list stays
\* in play with its body
MachineResetKeepsLast(m) ==
    LET RECURSIVE Loop(_, _)
        Loop(bs, k) == IF k >= Len(m.balls) THEN bs
                       ELSE Loop(removeBody(bs, m.balls[k].body), k + 1)
    IN  MachineState(m.heap, Loop(m.bodies, 1),
                     IF m.balls = << >> THEN << >> ELSE <<m.balls[Len(m.balls)]>>,
                     m.score, m.events)

\* PachinkoMachine.reset
MachineReset(m) ==
    LET RECURSIVE Loop(_, _)
        Loop(bs, k) == IF k > Len(m.balls) THEN bs
                       ELSE Loop(removeBody(bs, m.balls[k].body), k + 1)
    IN  MachineState(m.heap, Loop(m.bodies, 1), << >>, m.score, m.events)

\* PachinkoGame.resetGame: the score is cleared, the balls left are 10 again
\* and the machine is reset
reset ==
    /\ balls # << >>
    /\ \E m \in { MachineReset(MachineState(heap, bodies, balls, 0, events)) } :
           /\ bodies' = m.bodies
           /\ balls' = m.balls
           /\ heap' = Collect(m.heap, m.bodies, m.balls)
           /\ score' = m.score
    /\ game' = [game EXCEPT !.ballsRemaining = startBalls]
    /\ events' = Append(events, ResetEvent(nextId))
    /\ tick' = 0
    /\ UNCHANGED <<nextId, probe, statics>>

Next ==
    \/ \E power \in Powers : \E jitter \in Jitters : launchBall(power, jitter)
    \/ Frame
    \/ reset

Spec == Init /\ [][Next]_vars

\* ------------------------------------------------------------------------
\* PachinkoMachine.update on its own: balls placed at chosen points, polled
\* ------------------------------------------------------------------------
\* the slot boundaries, points next to them and beside the board, slot centres
PollXs ==
    {SlotRecord(i).minX : i \in 0..(numSlots - 1)}
    \cup {SlotRecord(i).maxX : i \in 0..(numSlots - 1)}
    \cup {SlotRecord(0).x, SlotRecord(3).x, SlotRecord(6).x,
          SlotRecord(4).maxX - 1, SlotRecord(4).maxX + 1,
          -(width \div 2) - 1, (width \div 2) + 1}

\* at the scoring altitude, just below it, just below the removal threshold
PollYs == {ScoreY, ScoreY - 1, RemoveY - 1}

PollInit ==
    \E n \in 1..MaxBalls : \E at \in [1..n -> PollXs \X PollYs] :
        /\ heap = [id \in 1..n |->
                     BallBody(<<at[id][1], at[id][2], 0>>, <<0, 0, 0>>, ballRadius)]
        /\ bodies = [id \in 1..n |-> id]
        /\ balls = [id \in 1..n |-> [body |-> id, scored |-> FALSE, onScore |-> TRUE]]
        /\ score = 0
        /\ nextId = n
        /\ tick = 0
        /\ events = << >>
        /\ probe = Probe("placed", NoBody, 0, 0, NoBody, <<>>, 0)
        /\ statics = staticBodies
        /\ game = NewGame

Poll ==
    /\ \E m \in { MachineUpdate(MachineState(heap, bodies, balls, score, events)) } :
           /\ bodies' = m.bodies
           /\ balls' = m.balls
           /\ heap' = Collect(m.heap, m.bodies, m.balls)
           /\ score' = m.score
           /\ events' = m.events
    /\ probe' = Probe("poll", NoBody, 0, 0, NoBody, <<>>, 0)
    /\ UNCHANGED <<nextId, tick, statics, game>>

PollNext == Poll

PollSpec == PollInit /\ [][PollNext]_vars

\* ------------------------------------------------------------------------
\* Physics on its own: one ball at a chosen point with a chosen velocity, and
\* one static body registered with addBody; one operation of the physics
\* world is applied and recorded in probe
\* ------------------------------------------------------------------------
\* operations applied in one run
MaxSteps == 1

\* a static sphere at (0, 6, 0), clear of the board's pins, of a pin's radius
ProbeSphere == StaticSphere(<<0, 6 * SCALE, 0>>, pinRadius, "sphere")

\* a static cylinder at the same point, of a pin's radius and height: its
\* height band is y in [5.8, 6.2]
ProbeCylinder == StaticCylinder(<<0, 6 * SCALE, 0>>, pinRadius, pinHeight, "cylinder")

\* a static box around the same point, a cube of side 0.2
ProbeBox ==
    StaticBox(<<-(SCALE \div 10), 6 * SCALE - (SCALE \div 10), -(SCALE \div 10)>>,
              <<SCALE \div 10, 6 * SCALE + (SCALE \div 10), SCALE \div 10>>, "box")

\* offsets of the ball from the centre of ProbeSphere: inside the contact
\* distance 0.3 (straight above, beside, on a 3-4-5 diagonal), at it, beyond it;
\* at the centre and near it (inside the box); beside the axis of the cylinder
\* on and just outside the two ends of its height band; at the contact
\* distance of the box and of the cylinder; on the top face and on a corner of
\* the box
ProbeOffsets ==
    { <<0, 140, 0>>, <<-140, 0, 0>>, <<0, 0, 140>>, <<84, 112, 0>>, <<-120, 0, 90>>,
      <<0, 210, 0>>, <<0, 350, 0>>,
      <<0, 0, 0>>, <<30, -20, 0>>,
      <<-140, 140, 0>>, <<-140, 141, 0>>, <<-140, -140, 0>>, <<-140, -141, 0>>,
      <<0, 196, 0>>, <<-210, 0, 0>>,
      <<0, 70, 0>>, <<-70, -70, 70>> }

ProbeVelocities ==
    { <<0, -7000, 0>>, <<0, 3500, 0>>, <<2100, -2800, 0>>, <<-1400, 0, 700>>,
      <<50, 40, 0>>, <<0, 0, 0>> }

\* frame times in 1/TICKS s: 1/120, 1/60, just above 1/60, 0.1 and 1 s
ProbeDeltas == {TICKS \div 120, TICKS \div 60, (TICKS \div 60) + 1, TICKS \div 10, TICKS}

\* values of (Math.random() - 0.5) * 0.1: the ends and the middle of the range
ProbeDraws == {-(SCALE \div 20), 0, (SCALE \div 20) - 1}

PhysInit ==
    \E off \in ProbeOffsets : \E vel \in ProbeVelocities :
        /\ heap = [id \in {1, 2} |->
                     IF id = 1
                     THEN BallBody(<<ProbeSphere.position[1] + off[1],
                                     ProbeSphere.position[2] + off[2],
                                     ProbeSphere.position[3] + off[3]>>, vel, ballRadius)
                     ELSE ProbeSphere]
        /\ bodies = <<1, 2>>
        /\ balls = << >>
        /\ score = 0
        /\ nextId = 1
        /\ tick = 0
        /\ events = << >>
        /\ probe = Probe("init", NoBody, 0, 0, NoBody, <<>>, 0)
        /\ statics = staticBodies
        /\ game = NewGame

\* Physics.update(deltaTime) in the world of the board; the loop passes the
\* ball and then the static body registered with addBody, for which no random
\* value is drawn
PhysUpdate ==
    /\ probe.steps < MaxSteps
    /\ \E deltaTime \in ProbeDeltas : \E draw \in ProbeDraws :
       \E out \in { UpdateBody(heap[1], statics, deltaTime, draw) } :
           /\ heap' = [heap EXCEPT ![1] = out.ball,
                                   ![2] = UpdateBody(heap[2], statics, deltaTime, 0).ball]
           /\ probe' = Probe("update", heap[1], deltaTime, draw, NoBody, out.called,
                             probe.steps + 1)
    /\ UNCHANGED <<bodies, balls, score, nextId, tick, events, statics, game>>

\* Physics.sphereVsSphere(ball, pin)
PhysSphere ==
    /\ probe.steps < MaxSteps
    /\ \E out \in { sphereVsSphere(heap[1], ProbeSphere) } :
           /\ heap' = [heap EXCEPT ![1] = out.ball]
           /\ probe' = Probe("sphere", heap[1], 0, 0, ProbeSphere, out.called,
                             probe.steps + 1)
    /\ UNCHANGED <<bodies, balls, score, nextId, tick, events, statics, game>>

\* Physics.sphereVsCylinder(ball, cylinder)
PhysCylinder ==
    /\ probe.steps < MaxSteps
    /\ \E out \in { sphereVsCylinder(heap[1], ProbeCylinder) } :
           /\ heap' = [heap EXCEPT ![1] = out.ball]
           /\ probe' = Probe("cylinder", heap[1], 0, 0, ProbeCylinder, out.called,
                             probe.steps + 1)
    /\ UNCHANGED <<bodies, balls, score, nextId, tick, events, statics, game>>

\* Physics.sphereVsBox(ball, box)
PhysBox ==
    /\ probe.steps < MaxSteps
    /\ \E out \in { sphereVsBox(heap[1], ProbeBox) } :
           /\ heap' = [heap EXCEPT ![1] = out.ball]
           /\ probe' = Probe("box", heap[1], 0, 0, ProbeBox, out.called,
                             probe.steps + 1)
    /\ UNCHANGED <<bodies, balls, score, nextId, tick, events, statics, game>>

PhysNext == PhysUpdate \/ PhysSphere \/ PhysCylinder \/ PhysBox

PhysSpec == PhysInit /\ [][PhysNext]_vars

\* ------------------------------------------------------------------------
\* Physics.update called several times on one ball of the board
\* ------------------------------------------------------------------------
\* calls of Physics.update in one run
MaxFlight == 3

\* frame times of at most 1/60 s, in 1/TICKS s: 1/150 s and 1/60 s
FlightDeltas == {TICKS \div 150, TICKS \div 60}

\* the ball at the launch point as launchBall(0.5) throws it, at rest there,
\* drifting slowly there, and falling just above the floor
FlightStarts ==
    { NewBallBody(POWER \div 2, 0),
      BallBody(<<launchX, launchY, launchZ>>, <<0, 0, 0>>, ballRadius),
      BallBody(<<launchX, launchY, launchZ>>, <<50, 40, 0>>, ballRadius),
      BallBody(<<0, ballRadius + (SCALE \div 50), 0>>, <<0, -2 * SCALE, 0>>, ballRadius) }

FlightInit ==
    \E ball \in FlightStarts :
        /\ heap = [id \in {1} |-> ball]
        /\ bodies = <<1>>
        /\ balls = << >>
        /\ score = 0
        /\ nextId = 1
        /\ tick = 0
        /\ events = << >>
        /\ probe = Probe("flight", ball, 0, 0, NoBody, <<>>, 0)
        /\ statics = staticBodies
        /\ game = NewGame

\* the collision loop of Physics.update changes the body that the integration
\* step leaves: some static body is in contact
Touches(body, deltaTime) ==
    \E moved \in { Integrate(body, fixedDelta(deltaTime)) } :
        CollideAll(Outcome(moved, <<>>), statics).ball # moved

\* Physics.update(deltaTime); probe keeps the ball at the start, the sum of the
\* frame times, the number of calls and whether a static body was in contact
\* in any of them
FlightUpdate ==
    /\ probe.steps < MaxFlight
    /\ \E deltaTime \in FlightDeltas : \E draw \in ProbeDraws :
       \E out \in { UpdateBody(heap[1], statics, deltaTime, draw) } :
           /\ heap' = [heap EXCEPT ![1] = out.ball]
           /\ probe' = Probe(IF probe.op = "bumped" \/ Touches(heap[1], deltaTime)
                             THEN "bumped" ELSE "flight",
                             probe.pre, probe.dt + deltaTime, draw, NoBody,
                             probe.called \o out.called, probe.steps + 1)
    /\ UNCHANGED <<bodies, balls, score, nextId, tick, events, statics, game>>

FlightNext == FlightUpdate

FlightSpec == FlightInit /\ [][FlightNext]_vars

\* ------------------------------------------------------------------------
\* PachinkoMachine.reset and Physics.removeBody called on their own, on a
\* machine holding balls in the states of their lifecycle
\* ------------------------------------------------------------------------
\* a ball just launched; a ball that scored, at rest on the floor of the centre
\* slot; a ball that fell beside the board, not yet below the removal threshold
ApiBalls ==
    { [body |-> NewBallBody(POWER \div 2, 0), scored |-> FALSE],
      [body |-> BallBody(<<0, ballRadius, 0>>, <<0, 0, 0>>, ballRadius), scored |-> TRUE],
      [body |-> BallBody(<<-4 * SCALE, RemoveY + SCALE, 0>>, <<0, -5 * SCALE, 0>>,
                         ballRadius), scored |-> FALSE] }

ApiInit ==
    \E n \in 0..MaxBalls : \E of \in [1..n -> ApiBalls] :
        /\ heap = [id \in 1..n |-> of[id].body]
        /\ bodies = [id \in 1..n |-> id]
        /\ balls = [id \in 1..n |->
                      [body |-> id, scored |-> of[id].scored, onScore |-> TRUE]]
        /\ score = 0
        /\ nextId = n
        /\ tick = 0
        /\ events = << >>
        /\ probe = Probe("placed", NoBody, 0, 0, NoBody, <<>>, 0)
        /\ statics = staticBodies
        /\ game = NewGame

\* PachinkoMachine.reset(); probe keeps the state before the call
ApiReset ==
    /\ \E m \in { MachineReset(MachineState(heap, bodies, balls, score, events)) } :
           /\ bodies' = m.bodies
           /\ balls' = m.balls
           /\ heap' = Collect(m.heap, m.bodies, m.balls)
           /\ score' = m.score
           /\ events' = m.events
    /\ probe' = Probe("reset", MachineState(heap, bodies, balls, score, events),
                      0, 0, NoBody, <<>>, 0)
    /\ UNCHANGED <<nextId, tick, statics, game>>

\* Physics.removeBody(body), for a registered body and for one never added;
\* probe keeps the state before the call and, as static, the body handed over
ApiRemove ==
    \E id \in 1..(nextId + 1) :
        /\ bodies' = removeBody(bodies, id)
        /\ heap' = Collect(heap, bodies', balls)
        /\ probe' = Probe("remove", MachineState(heap, bodies, balls, score, events),
                          0, 0, id, <<>>, 0)
        /\ UNCHANGED <<balls, score, nextId, tick, events, statics, game>>

ApiNext == ApiReset \/ ApiRemove

ApiSpec == ApiInit /\ [][ApiNext]_vars

\* ------------------------------------------------------------------------
\* Physics.update in small worlds: one ball and up to three static bodies
\* registered with addStaticBody in every order
\* ------------------------------------------------------------------------
\* the divider right of the centre slot and the floor, as on the board, and a
\* pin beside that divider: a ball pushed out of the divider touches it
SweepPin ==
    StaticCylinder(<<Divider(3).max[1] + 2 * ballRadius + (pinRadius \div 2),
                     pinHeight \div 2, 0>>, pinRadius, pinHeight, "pin")

SweepBodies == {Divider(3), Floor, SweepPin}

\* Physics.staticBodies after addStaticBody for some of the bodies, in some order
SweepWorlds ==
    {<< >>}
    \cup {<<a>> : a \in SweepBodies}
    \cup {w \in SweepBodies \X SweepBodies : w[1] # w[2]}
    \cup {w \in SweepBodies \X SweepBodies \X SweepBodies :
              w[1] # w[2] /\ w[1] # w[3] /\ w[2] # w[3]}

\* the ball before the update: inside the divider just above the floor,
\* between the divider and the pin (touching the divider only, touching both),
\* on top of the divider, in free space
SweepPositions ==
    { <<Divider(3).min[1] + (dividerWidth \div 2) + 10, 90, 0>>,
      <<Divider(3).max[1] + 60, 100, 0>>,
      <<Divider(3).max[1] + 100, 100, 0>>,
      <<Divider(3).min[1] + (dividerWidth \div 2), slotHeight + 100, 0>>,
      <<0, 2 * SCALE, 0>> }

SweepVelocities == { <<0, -3 * SCALE, 0>>, <<SCALE, 0, 0>>, <<0, 0, 0>> }

SweepInit ==
    \E world \in SweepWorlds : \E pos \in SweepPositions : \E vel \in SweepVelocities :
        /\ heap = [id \in {1} |-> BallBody(pos, vel, ballRadius)]
        /\ bodies = <<1>>
        /\ balls = << >>
        /\ score = 0
        /\ nextId = 1
        /\ tick = 0
        /\ events = << >>
        /\ probe = Probe("world", NoBody, 0, 0, NoBody, <<>>, 0)
        /\ statics = world
        /\ game = NewGame

\* Physics.update(1/60)
SweepUpdate ==
    /\ probe.steps < MaxSteps
    /\ \E draw \in ProbeDraws :
       \E out \in { UpdateBody(heap[1], statics, FixedStep, draw) } :
           /\ heap' = [heap EXCEPT ![1] = out.ball]
           /\ probe' = Probe("sweep", heap[1], FixedStep, draw, NoBody, out.called,
                             probe.steps + 1)
    /\ UNCHANGED <<bodies, balls, score, nextId, tick, events, statics, game>>

SweepNext == SweepUpdate

SweepSpec == SweepInit /\ [][SweepNext]_vars

\* ------------------------------------------------------------------------
\* PachinkoGame.update with several balls in play, each with its own random
\* value
\* ------------------------------------------------------------------------
\* a ball as launchBall(0.5) throws it; a ball beside it, overlapping it; a
\* ball falling through the scoring altitude above the centre slot; a ball
\* falling beside the board just above the removal threshold
PairStarts ==
    { NewBallBody(POWER \div 2, 0),
      BallBody(<<launchX - 100, launchY, launchZ>>, <<50, 40, 0>>, ballRadius),
      BallBody(<<SlotCentre(3), ScoreY + 20, 0>>, <<0, -3 * SCALE, 0>>, ballRadius),
      BallBody(<<-4 * SCALE, RemoveY + 20, 0>>, <<0, -5 * SCALE, 0>>, ballRadius) }

\* values of (Math.random() - 0.5) * 0.1
PairDraws == {0, (SCALE \div 20) - 1}

PairInit ==
    \E n \in 1..MaxBalls : \E of \in [1..n -> PairStarts] :
        /\ heap = [id \in 1..n |-> of[id]]
        /\ bodies = [id \in 1..n |-> id]
        /\ balls = [id \in 1..n |-> [body |-> id, scored |-> FALSE, onScore |-> TRUE]]
        /\ score = 0
        /\ nextId = n
        /\ tick = 0
        /\ events = << >>
        /\ probe = Probe("placed", NoBody, 0, << >>, NoBody, <<>>, 0)
        /\ statics = staticBodies
        /\ game = NewGame

\* PachinkoGame.update(deltaTime): Physics.update, then PachinkoMachine.update;
\* probe keeps the frame time and the random value of each body
PairFrame ==
    /\ probe.steps < MaxSteps
    /\ \E deltaTime \in FlightDeltas : \E draws \in [1..Len(bodies) -> PairDraws] :
       \E h \in { PhysicsUpdate(heap, bodies, deltaTime, draws) } :
       \E m \in { MachineUpdate(MachineState(h, bodies, balls, score, events)) } :
           /\ bodies' = m.bodies
           /\ balls' = m.balls
           /\ heap' = Collect(m.heap, m.bodies, m.balls)
           /\ score' = m.score
           /\ events' = m.events
           /\ probe' = Probe("frame", NoBody, deltaTime, draws, NoBody, <<>>,
                             probe.steps + 1)
    /\ UNCHANGED <<nextId, tick, statics, game>>

PairNext == PairFrame

PairSpec == PairInit /\ [][PairNext]_vars

\* ------------------------------------------------------------------------
\* PachinkoGame: the handlers of the Space key, the R key and the launch
\* button, and the frame, in any order
\* ------------------------------------------------------------------------
\* a ball launched by the button that has come to rest on the floor of the
\* centre slot, 200 frames after launchBall(0.5): every further frame leaves
\* it as it is
RestingBall == BallBody(<<139, ballRadius, 0>>, <<0, 29, 0>>, ballRadius)

\* balls left at the start of a run: all of them, the last one, or none
StartRemaining == {startBalls, 1, 0}

\* the Space key at the start of a run: up; held for 1.9 s with balls left
\* when it went down; held for 2 s or longer
StartCharges(remaining) ==
    {[launchPower |-> 0, isCharging |-> FALSE],
     [launchPower |-> POWER, isCharging |-> TRUE]}
    \cup (IF remaining > 0
          THEN {[launchPower |-> POWER - (POWER \div 20), isCharging |-> TRUE]}
          ELSE {})

\* the game after its earlier balls, all launched by the button, have scored
\* in the centre slot and come to rest
GameInit ==
    \E remaining \in StartRemaining : \E charge \in StartCharges(remaining) :
        LET n == startBalls - remaining
        IN  /\ heap = [id \in 1..n |-> RestingBall]
            /\ bodies = [id \in 1..n |-> id]
            /\ balls = [id \in 1..n |-> [body |-> id, scored |-> TRUE, onScore |-> TRUE]]
            /\ score = n * pointValues[4]
            /\ nextId = n
            /\ tick = 0
            /\ events = [k \in 1..(2 * n) |->
                           IF k <= n THEN LaunchEvent(k, POWER \div 2)
                           ELSE ScoreEvent(k - n, pointValues[4], RestingBall.position)]
            /\ probe = Probe("start", NewGame, 0, 0, NoBody, <<>>, 0)
            /\ statics = staticBodies
            /\ game = [ballsRemaining |-> remaining,
                       launchPower |-> charge.launchPower,
                       isCharging |-> charge.isCharging]

\* the body of PachinkoGame.launchBall(power) past its guard:
\* PachinkoMachine.launchBall(power), which always returns the ball, then
\* this.ballsRemaining-- and the score listener on the ball
LaunchOneBall(op, power, jitter, g) ==
    /\ probe.steps < MaxSteps
    /\ LET id == nextId + 1
       IN  /\ heap' = [i \in DOMAIN heap \cup {id} |->
                          IF i = id THEN NewBallBody(power, jitter) ELSE heap[i]]
           /\ bodies' = Append(bodies, id)
           /\ balls' = Append(balls, [body |-> id, scored |-> FALSE, onScore |-> TRUE])
           /\ nextId' = id
           /\ events' = Append(events, LaunchEvent(id, power))
           /\ probe' = Probe(op, game, 0, 0, NoBody, <<id>>, probe.steps + 1)
    /\ game' = [g EXCEPT !.ballsRemaining = @ - 1]

\* a launch that does not look at the balls left
GameLaunchBallUnguarded(op, power, jitter, g) == LaunchOneBall(op, power, jitter, g)

\* PachinkoGame.launchBall(power) called when the game fields are those of g:
\* if (this.ballsRemaining <= 0) return
GameLaunchBall(op, power, jitter, g) ==
    IF g.ballsRemaining <= 0
    THEN /\ game' = g
         /\ probe' = Probe(op, game, 0, 0, NoBody, <<>>, probe.steps)
         /\ UNCHANGED <<heap, bodies, balls, nextId, events>>
    ELSE LaunchOneBall(op, power, jitter, g)

\* the click listener of the launch button: this.launchBall()
Click ==
    /\ \E jitter \in Jitters : GameLaunchBall("click", POWER \div 2, jitter, game)
    /\ UNCHANGED <<score, tick, statics>>

\* keydown of Space, not a repeat, while not charging: startCharging
KeyDownSpace ==
    /\ ~game.isCharging
    /\ game' = IF game.ballsRemaining <= 0 THEN game
               ELSE [game EXCEPT !.isCharging = TRUE, !.launchPower = 0]
    /\ probe' = Probe("keydown", game, 0, 0, NoBody, <<>>, probe.steps)
    /\ UNCHANGED <<heap, bodies, balls, score, nextId, tick, events, statics>>

\* keyup of Space while charging: releaseBall
KeyUpSpace ==
    /\ game.isCharging
    /\ \E jitter \in Jitters :
           GameLaunchBall("keyup", game.launchPower, jitter,
                          [game EXCEPT !.isCharging = FALSE, !.launchPower = 0])
    /\ UNCHANGED <<score, tick, statics>>

\* keydown of R: resetGame.  A reset of a game that has no ball in play, all
\* its balls left and no score changes nothing.
KeyDownR ==
    IF balls = << >> /\ game.ballsRemaining = startBalls /\ score = 0
    THEN UNCHANGED vars
    ELSE /\ \E m \in { MachineReset(MachineState(heap, bodies, balls, 0, events)) } :
                /\ bodies' = m.bodies
                /\ balls' = m.balls
                /\ heap' = Collect(m.heap, m.bodies, m.balls)
                /\ score' = m.score
         /\ game' = [game EXCEPT !.ballsRemaining = startBalls]
         /\ events' = Append(events, ResetEvent(nextId))
         /\ probe' = Probe("reset", game, 0, 0, NoBody, <<>>, probe.steps)
         /\ UNCHANGED <<nextId, tick, statics>>

\* the charged power without the cap: this.launchPower + deltaTime * 0.5
ChargeUncapped(g, deltaTime) ==
    IF g.isCharging THEN [g EXCEPT !.launchPower = @ + deltaTime] ELSE g

\* this.launchPower = Math.min(1, this.launchPower + deltaTime * 0.5)
Charge(g, deltaTime) ==
    IF g.isCharging
    THEN [g EXCEPT !.launchPower = Min(POWER, @ + deltaTime)]
    ELSE g

\* gameLoop: PachinkoGame.update(deltaTime) with deltaTime at most 0.1 s
GameFrame ==
    /\ tick <= LaunchWindow
    /\ \E deltaTime \in Deltas : \E draws \in [1..Len(bodies) -> Perturbs] :
       \E h \in { PhysicsUpdate(heap, bodies, deltaTime, draws) } :
       \E m \in { MachineUpdate(MachineState(h, bodies, balls, score, events)) } :
           /\ game' = Charge(game, deltaTime)
           /\ bodies' = m.bodies
           /\ balls' = m.balls
           /\ heap' = Collect(m.heap, m.bodies, m.balls)
           /\ score' = m.score
           /\ events' = m.events
           /\ probe' = Probe("frame", game, deltaTime, 0, NoBody, <<>>, probe.steps)
    /\ tick' = tick + 1
    /\ UNCHANGED <<nextId, statics>>

GameNext == Click \/ KeyDownSpace \/ KeyUpSpace \/ KeyDownR \/ GameFrame

GameSpec == GameInit /\ [][GameNext]_vars

LiveSpec == Init /\ [][Next]_vars /\ WF_vars(Frame)

\* ------------------------------------------------------------------------
\* Properties
\* ------------------------------------------------------------------------
BallIds == {balls[k].body : k \in 1..Len(balls)}

Created == 1..nextId

ScoreEventsOf(id) ==
    {k \in 1..Len(events) : events[k].kind = "score" /\ events[k].ball = id}

RemovalsOf(id) ==
    {k \in 1..Len(events) : events[k].kind = "remove" /\ events[k].ball = id}

Registered(id) == id \in Range(bodies)

\* C1: onScore is invoked at most once for every ball, and a ball that has
\* matched a slot carries the scored flag from then on, however long it stays
\* below the scoring altitude.
C1_ScoreAtMostOnce ==
    /\ \A id \in Created : Cardinality(ScoreEventsOf(id)) <= 1
    /\ \A k \in 1..Len(balls) : ScoreEventsOf(balls[k].body) # {} => balls[k].scored

\* a ball that scored while falling now rests on the floor, still below the
\* scoring altitude, frames after its score event
C1_Witness ==
    \E k \in 1..Len(balls) :
        /\ balls[k].scored
        /\ heap[balls[k].body].position[2] = ballRadius
        /\ \E e \in ScoreEventsOf(balls[k].body) : events[e].y > ballRadius

\* C2: under continued frames every launched ball is eventually removed from
\* PachinkoMachine.balls and from Physics.bodies.
C2_EventuallyRemoved ==
    \A id \in 1..MaxBalls :
        [](id \in BallIds => <>(id \notin BallIds /\ ~Registered(id)))

\* every frame step, whatever its frame time and random draws, reproduces the
\* current bodies and the current list of balls
FrameIdle ==
    \A deltaTime \in Deltas : \A draws \in [1..Len(bodies) -> ProbeDraws] :
        \E h \in { PhysicsUpdate(heap, bodies, deltaTime, draws) } :
            /\ h = heap
            /\ MachineUpdate(MachineState(h, bodies, balls, score, events)).balls = balls

\* C2, as a finite run refutes it: a ball that is eventually removed is never
\* listed in a state that every frame step reproduces, because from such a
\* state continued frames keep the ball listed and registered forever.
C2_NoBallStaysForever == ~(balls # << >> /\ FrameIdle)

\* C3: no ball below the hard floor threshold survives an update: after every
\* update no listed ball has y < -2; a ball is removed at most once; and a
\* removed ball is in neither list in any later state.
C3_RemovedBelowFloor ==
    /\ \A k \in 1..Len(balls) : heap[balls[k].body].position[2] >= RemoveY
    /\ \A id \in Created : Cardinality(RemovalsOf(id)) <= 1
    /\ \A id \in Created : RemovalsOf(id) # {} => id \notin BallIds /\ ~Registered(id)

\* a ball was removed by an update, below the threshold, while another ball
\* launched with it is still on the board
C3_Witness ==
    /\ \E id \in Created : \E e \in RemovalsOf(id) : events[e].y < RemoveY
    /\ balls # << >>

\* C4: the bodies registered in Physics.bodies are exactly the bodies of the
\* balls of PachinkoMachine.balls, each once.
C4_JointOwnership ==
    /\ Range(bodies) = BallIds
    /\ Cardinality(Range(bodies)) = Len(bodies)
    /\ Cardinality(BallIds) = Len(balls)
    /\ \A id \in BallIds : id \in DOMAIN heap /\ ~heap[id].isStatic

\* two balls were launched, one has been removed and one remains
C4_Witness ==
    /\ nextId = 2
    /\ Len(balls) = 1
    /\ \E id \in Created : RemovalsOf(id) # {}
    /\ Range(bodies) = BallIds

Phase(id, bls, n) ==
    IF id > n THEN "unborn"
    ELSE IF \E k \in 1..Len(bls) : bls[k].body = id /\ ~bls[k].scored THEN "active"
    ELSE IF \E k \in 1..Len(bls) : bls[k].body = id THEN "scored"
    ELSE "removed"

PhaseStep(from, to) ==
    \/ from = to
    \/ from = "unborn" /\ to = "active"
    \/ from = "active" /\ to \in {"scored", "removed"}
    \/ from = "scored" /\ to = "removed"

\* C5: a ball only moves Active -> Scored -> Removed or Active -> Removed; a
\* score event is emitted only for a ball that was Active before the step, and
\* never after the ball's removal.
C5_Lifecycle ==
    [][ \A id \in 1..MaxBalls :
          /\ PhaseStep(Phase(id, balls, nextId), Phase(id, balls', nextId'))
          /\ ScoreEventsOf(id)' # ScoreEventsOf(id) => Phase(id, balls, nextId) = "active"
          /\ \A e \in ScoreEventsOf(id)' : \A r \in RemovalsOf(id)' : e < r ]_vars

\* one ball has scored and stays, another was removed without scoring
C5_Witness ==
    /\ \E k \in 1..Len(balls) : balls[k].scored /\ ScoreEventsOf(balls[k].body) # {}
    /\ \E id \in Created : RemovalsOf(id) # {} /\ ScoreEventsOf(id) = {}


\* the slots whose range test x passes
SlotsContaining(x) == {k \in 1..numSlots : InSlot(x, slots[k])}

OnBoard(x) == x >= -(width \div 2) /\ x <= width \div 2

\* C6: every x of the board's span [-width/2, width/2] at which a ball stands
\* passes the range test of exactly one slot.
C6_ExactlyOneSlot ==
    \A id \in DOMAIN heap :
        OnBoard(heap[id].position[1])
            => Cardinality(SlotsContaining(heap[id].position[1])) = 1

\* C7: every score event carries the point value of the slot whose half-open
\* range [minX, maxX) contains the ball's x, so a ball at a slot's maxX is
\* scored in the slot whose minX it equals.
C7_HalfOpenSlotPoints ==
    \A e \in 1..Len(events) :
        events[e].kind = "score" =>
            \E k \in 1..numSlots :
                /\ slots[k].minX <= events[e].x
                /\ events[e].x < slots[k].maxX
                /\ events[e].points = slots[k].points

RECURSIVE SlotWidthSum(_)
SlotWidthSum(k) ==
    IF k = 0 THEN 0 ELSE (slots[k].maxX - slots[k].minX) + SlotWidthSum(k - 1)

BoardBuilt == probe.op \in {"placed", "poll"}

\* C8 as stated: on the constructed board the recorded slot widths sum to the
\* board width minus the width of the 6 dividers.
C8_WidthsExcludeDividers ==
    BoardBuilt => SlotWidthSum(numSlots) = width - (numSlots - 1) * dividerWidth

\* C8, amended: on the constructed board the recorded slot widths sum to the
\* board width; the dividers' width is not subtracted.
C8_WidthsSumToBoardWidth ==
    BoardBuilt => SlotWidthSum(numSlots) = width

\* the recorded ranges are in use across the board: a ball at the left edge
\* x = -width/2 scored in the first slot, a ball at the centre of the last slot
\* scored there
C8_Witness ==
    /\ probe.op = "poll"
    /\ \E e \in 1..Len(events) :
           /\ events[e].kind = "score"
           /\ events[e].x = -(width \div 2)
           /\ events[e].x = slots[1].minX
    /\ \E e \in 1..Len(events) :
           /\ events[e].kind = "score"
           /\ events[e].x = slots[numSlots].x
           /\ events[e].points = slots[numSlots].points

\* C9: an update with a frame time above 1/60 s leaves the body exactly where
\* an update with 1/60 s and the same random draw leaves it; where nothing was
\* hit, gravity has acted for 1/60 s and the body has moved for 1/60 s.
C9_StepClamped ==
    (probe.op = "update" /\ probe.dt > FixedStep) =>
        /\ heap[1] = UpdateBody(probe.pre, statics, FixedStep, probe.draw).ball
        /\ probe.called = << >> =>
              /\ heap[1].velocity[2]
                    = probe.pre.velocity[2] + RoundDiv(gravity * SCALE, 60)
              /\ heap[1].position[2]
                    = probe.pre.position[2] + RoundDiv(heap[1].velocity[2], 60)

\* an update with a frame time of 1 s has moved a body
C9_Witness ==
    /\ probe.op = "update"
    /\ probe.dt = TICKS
    /\ heap[1].position # probe.pre.position
    /\ heap[1].velocity # probe.pre.velocity

\* v . d for the offset d of the ball from the sphere before the resolution;
\* the velocity along the contact normal is this over |d|
AlongNormal(v, body, static) ==
    v[1] * (body.position[1] - static.position[1])
    + v[2] * (body.position[2] - static.position[2])
    + v[3] * (body.position[3] - static.position[3])

Penetrates(body, static) ==
    LET dx == body.position[1] - static.position[1]
        dy == body.position[2] - static.position[2]
        dz == body.position[3] - static.position[3]
        sq == dx * dx + dy * dy + dz * dz
        R == body.radius + static.radius
    IN  sq > 0 /\ sq < R * R

\* C10: after sphereVsSphere has resolved a penetration, the velocity along
\* the contact normal is -restitution times the one before: v_n' = -0.6 v_n
\* (compared up to 4/SCALE per second, the rounding of the fixed-point model).
C10_NormalVelocityRestitution ==
    (probe.op = "sphere" /\ Penetrates(probe.pre, probe.static)) =>
        LET d == Length(probe.pre.position[1] - probe.static.position[1],
                        probe.pre.position[2] - probe.static.position[2],
                        probe.pre.position[3] - probe.static.position[3])
            before == RoundDiv(AlongNormal(probe.pre.velocity, probe.pre, probe.static), d)
            after == RoundDiv(AlongNormal(heap[1].velocity, probe.pre, probe.static), d)
        IN  Abs(restitutionDen * after + restitutionNum * before)
                <= restitutionDen * 4


\* the offset of a body from the centre of a static sphere or cylinder
OffsetFrom(body, static) ==
    << body.position[1] - static.position[1],
       body.position[2] - static.position[2],
       body.position[3] - static.position[3] >>

\* the offset of a body from the point of a box closest to it
OffsetFromBox(body, box) ==
    << body.position[1] - Max(box.min[1], Min(body.position[1], box.max[1])),
       body.position[2] - Max(box.min[2], Min(body.position[2], box.max[2])),
       body.position[3] - Max(box.min[3], Min(body.position[3], box.max[3])) >>

\* the offset the test of probe measures, for a body at the place of b
ProbeOffset(b) ==
    IF probe.op = "box" THEN OffsetFromBox(b, probe.static)
    ELSE IF probe.op = "cylinder"
    THEN << OffsetFrom(b, probe.static)[1], 0, OffsetFrom(b, probe.static)[3] >>
    ELSE OffsetFrom(b, probe.static)

\* the distance at which the ball of the test touches the obstacle
ContactDistance ==
    IF probe.op = "box" THEN probe.pre.radius
    ELSE probe.pre.radius + probe.static.radius

InBand(body, cylinder) ==
    /\ 2 * body.position[2] >= 2 * cylinder.position[2] - cylinder.height
    /\ 2 * body.position[2] <= 2 * cylinder.position[2] + cylinder.height

\* the last operation was a collision test that found the ball penetrating
ProbePenetrated ==
    /\ probe.op \in {"sphere", "cylinder", "box"}
    /\ LET d == ProbeOffset(probe.pre)
           sq == d[1] * d[1] + d[2] * d[2] + d[3] * d[3]
       IN  sq > 0 /\ sq < ContactDistance * ContactDistance
    /\ probe.op = "cylinder" => InBand(probe.pre, probe.static)

\* C11: a collision test that finds the ball penetrating moves it outwards
\* along the contact normal until its distance is the contact distance (R for
\* a sphere or cylinder, the ball's radius for a box); the sphereVsCylinder
\* test moves it horizontally only.  Distances are compared up to the rounding
\* of the model: 2 units for the positions, and the share of the contact
\* distance by which the distance before the test, measured to the nearest
\* unit, can be off (half a unit in that distance).
C11_SeparatedToContact ==
    ProbePenetrated =>
        LET d == ProbeOffset(probe.pre)
            after == ProbeOffset(heap[1])
            move == << heap[1].position[1] - probe.pre.position[1],
                       heap[1].position[2] - probe.pre.position[2],
                       heap[1].position[3] - probe.pre.position[3] >>
            slack == Abs(d[1]) + Abs(d[2]) + Abs(d[3])
            distance == Length(d[1], d[2], d[3])
            rounding == 2 + (ContactDistance \div (2 * distance))
        IN  /\ Abs(Length(after[1], after[2], after[3]) - ContactDistance) <= rounding
            /\ move[1] * d[1] + move[2] * d[2] + move[3] * d[3] >= 0
            /\ Abs(move[2] * d[3] - move[3] * d[2]) <= slack
            /\ Abs(move[3] * d[1] - move[1] * d[3]) <= slack
            /\ Abs(move[1] * d[2] - move[2] * d[1]) <= slack
            /\ Abs(Length(move[1], move[2], move[3]) + distance - ContactDistance)
                   <= rounding

\* a ball that overlapped an edge of the box (its offset from the closest
\* point has two components) was pushed out along both
C11_Witness ==
    /\ probe.op = "box"
    /\ ProbePenetrated
    /\ heap[1].position[1] # probe.pre.position[1]
    /\ heap[1].position[2] # probe.pre.position[2]


\* the ball's axis distance to the cylinder of probe is positive and below the
\* sum of the radii
BesideAxis ==
    LET dx == probe.pre.position[1] - probe.static.position[1]
        dz == probe.pre.position[3] - probe.static.position[3]
        R == probe.pre.radius + probe.static.radius
    IN  dx * dx + dz * dz > 0 /\ dx * dx + dz * dz < R * R

OnBandEnd(body, cylinder) ==
    \/ 2 * body.position[2] = 2 * cylinder.position[2] - cylinder.height
    \/ 2 * body.position[2] = 2 * cylinder.position[2] + cylinder.height

\* C12: sphereVsCylinder on a ball whose y is outside the cylinder's height
\* band changes neither its position nor its velocity and makes no callback,
\* however close the ball is to the axis; a ball exactly on an end of the band
\* and beside the axis is resolved as a collision.
C12_HeightGating ==
    probe.op = "cylinder" =>
        /\ ~InBand(probe.pre, probe.static)
              => heap[1] = probe.pre /\ probe.called = << >>
        /\ (OnBandEnd(probe.pre, probe.static) /\ BesideAxis)
              => /\ probe.called = <<probe.static>>
                 /\ heap[1].position # probe.pre.position

\* a ball beside the axis, closer than the sum of the radii, one unit above
\* or below the band went through the test
C12_Witness ==
    /\ probe.op = "cylinder"
    /\ BesideAxis
    /\ ~InBand(probe.pre, probe.static)
    /\ heap[1] = probe.pre


\* C13: after n calls of Physics.update with steps of at most 1/60 s and no
\* static body in contact, the vertical velocity is v_y(0) + gravity * (the
\* sum of the steps), whatever was drawn for the horizontal perturbation.
C13_ProjectileVy ==
    probe.op = "flight" =>
        heap[1].velocity[2] * TICKS
            = probe.pre.velocity[2] * TICKS + gravity * SCALE * probe.dt

\* two or more calls without contact, the last with a nonzero draw that was
\* added to the horizontal velocity
C13_Witness ==
    /\ probe.op = "flight"
    /\ probe.steps >= 2
    /\ probe.draw # 0
    /\ heap[1].velocity[1] # RoundDiv(probe.pre.velocity[1] * frictionNum, frictionDen)
    /\ Abs(heap[1].velocity[2]) > PerturbThreshold


\* C14: after PachinkoMachine.reset the list of balls is empty and no body of
\* a ball that was listed is registered, whatever the number of balls and
\* their states; the static bodies are those of the constructed board.
C14_ResetClearsBalls ==
    probe.op = "reset" =>
        /\ balls = << >>
        /\ \A k \in 1..Len(probe.pre.balls) : ~Registered(probe.pre.balls[k].body)
        /\ statics = staticBodies
        /\ \A k \in 1..Len(statics) : statics[k].isStatic

\* reset was called on two balls, one scored and one not, both registered
C14_Witness ==
    /\ probe.op = "reset"
    /\ Len(probe.pre.balls) = 2
    /\ Len(probe.pre.bodies) = 2
    /\ \E j, k \in 1..2 : probe.pre.balls[j].scored /\ ~probe.pre.balls[k].scored
    /\ bodies = << >>

\* C15: a reset called when no ball is listed, and a reset that follows a
\* reset, change nothing.
C15_ResetIdempotent ==
    [][ (probe'.op = "reset" /\ (balls = << >> \/ probe.op = "reset"))
            => /\ bodies' = bodies
               /\ balls' = balls
               /\ heap' = heap
               /\ score' = score
               /\ events' = events
               /\ statics' = statics ]_vars

\* reset was called with no ball listed on a machine that had held balls
C15_Witness ==
    /\ probe.op = "reset"
    /\ probe.pre.balls = << >>
    /\ probe.pre.bodies = << >>
    /\ nextId >= 1

\* a sequence without the elements equal to x
RECURSIVE Without(_, _)
Without(seq, x) ==
    IF seq = << >> THEN << >>
    ELSE IF seq[1] = x THEN Without(Tail(seq), x)
    ELSE <<seq[1]>> \o Without(Tail(seq), x)

\* C16: Physics.removeBody(body) leaves Physics.bodies without that body, the
\* other bodies in their order; when the body is not registered the list is
\* as before; the list of balls and the bodies themselves are untouched.
C16_RemoveBodyExact ==
    probe.op = "remove" =>
        /\ bodies = Without(probe.pre.bodies, probe.static)
        /\ probe.static \notin Range(probe.pre.bodies) => bodies = probe.pre.bodies
        /\ Len(bodies) >= Len(probe.pre.bodies) - 1
        /\ balls = probe.pre.balls
        /\ \A id \in DOMAIN heap : heap[id] = probe.pre.heap[id]

\* the first of two registered bodies was removed and the second is left
C16_Witness ==
    /\ probe.op = "remove"
    /\ Len(probe.pre.bodies) = 2
    /\ probe.static = probe.pre.bodies[1]
    /\ bodies = <<probe.pre.bodies[2]>>


\* C17: Physics.staticBodies holds the bodies of the constructed board, all
\* static, in every state; a static body registered among the bodies that
\* Physics.update passes over keeps its position, velocity and shape.
C17_StaticsNeverChange ==
    /\ statics = staticBodies
    /\ \A k \in 1..Len(statics) : statics[k].isStatic
    /\ \A id \in DOMAIN heap : heap[id].isStatic => heap[id] = ProbeSphere

\* Physics.update moved the ball and resolved a collision of it with a static
\* body of the board, with a static body registered beside the ball
C17_Witness ==
    /\ probe.op = "update"
    /\ probe.called # << >>
    /\ heap[1].position # probe.pre.position
    /\ \E id \in DOMAIN heap : heap[id].isStatic


\* the ball after a collision test differs from the ball handed to the test
ProbeChanged ==
    \/ heap[1].position # probe.pre.position
    \/ heap[1].velocity # probe.pre.velocity

ProbeIsTest == probe.op \in {"sphere", "cylinder", "box"}

\* C18: a collision test that changes the ball's position or velocity calls
\* ball.onCollision exactly once, with the static body of the test; a test
\* that changes nothing does not call it.
C18_CallbackOncePerCollision ==
    ProbeIsTest =>
        probe.called = (IF ProbeChanged THEN <<probe.static>> ELSE << >>)

\* C18, the part that holds: onCollision is called at most once per test,
\* with the static body of the test, only by a test that changed the ball;
\* a changing test that stays silent is sphereVsBox with the centre of the
\* ball inside the box.
C18_SilentOnlyInsideBox ==
    ProbeIsTest =>
        /\ probe.called \in {<< >>, <<probe.static>>}
        /\ probe.called # << >> => ProbeChanged
        /\ (ProbeChanged /\ probe.called = << >>) =>
               /\ probe.op = "box"
               /\ \A k \in 1..3 :
                      /\ probe.pre.position[k] >= ProbeBox.min[k]
                      /\ probe.pre.position[k] <= ProbeBox.max[k]


\* C19: the point values of the slots are symmetric (slot i and slot N-1-i
\* carry the same points), run 10, 50, 100 from either end and peak at 500 in
\* the single centre slot; the record of slot i stores pointValues[i], and a
\* ball scored at the centre of slot i is awarded pointValues[i].
C19_SymmetricPointTable ==
    BoardBuilt =>
        /\ Len(slots) = numSlots /\ Len(pointValues) = numSlots
        /\ \A i \in 0..(numSlots - 1) :
               /\ slots[i + 1].points = slots[(numSlots - 1 - i) + 1].points
               /\ slots[i + 1].points = pointValues[i + 1]
        /\ <<slots[1].points, slots[2].points, slots[3].points>> = <<10, 50, 100>>
        /\ slots[(numSlots + 1) \div 2].points = 500
        /\ \A k \in 1..numSlots :
               /\ slots[k].points >= slots[1].points
               /\ k # (numSlots + 1) \div 2 =>
                      slots[k].points < slots[(numSlots + 1) \div 2].points
        /\ \A e \in 1..Len(events) : \A k \in 1..numSlots :
               (events[e].kind = "score" /\ events[e].x = slots[k].x) =>
                   events[e].points = pointValues[k]

\* one ball scored at the centre of the leftmost slot and one at the centre of
\* the rightmost slot, both for 10 points
C19_Witness ==
    /\ probe.op = "poll"
    /\ \E e1, e2 \in 1..Len(events) :
           /\ events[e1].kind = "score" /\ events[e2].kind = "score"
           /\ events[e1].x = slots[1].x
           /\ events[e2].x = slots[numSlots].x
           /\ events[e1].points = 10
           /\ events[e2].points = events[e1].points


\* the ball of the last Physics.update after the collision loop, before the
\* perturbation test
ProbeBeforePerturb ==
    CollideAll(Outcome(Integrate(probe.pre, fixedDelta(probe.dt)), << >>), statics).ball

\* C20: a body whose horizontal velocity after the collision loop is at or
\* below the threshold 0.1 receives no perturbation in that Physics.update,
\* whatever its vertical velocity.
C20_PerturbOnlyWhenHorizontal ==
    probe.op = "update" =>
        LET v == ProbeBeforePerturb.velocity
        IN  v[1] * v[1] + v[3] * v[3] <= PerturbThreshold * PerturbThreshold
                => heap[1].velocity = v

\* C20, the part that holds: the perturbation is the drawn value added to
\* velocity[0] alone, and a body with both |velocity[0]| and |velocity[1]| at
\* or below the threshold receives none.
C20_PerturbOnlyWhenMoving ==
    probe.op = "update" =>
        LET v == ProbeBeforePerturb.velocity
        IN  /\ heap[1].velocity \in {v, <<v[1] + probe.draw, v[2], v[3]>>}
            /\ (Abs(v[1]) <= PerturbThreshold /\ Abs(v[2]) <= PerturbThreshold)
                   => heap[1].velocity = v

\* the change of the ball's velocity in the last collision test
ProbeVelocityChange ==
    << heap[1].velocity[1] - probe.pre.velocity[1],
       heap[1].velocity[2] - probe.pre.velocity[2],
       heap[1].velocity[3] - probe.pre.velocity[3] >>

\* C21: a resolved contact changes the velocity along the contact normal
\* only: the change of velocity is parallel to the normal (its cross product
\* with the offset that defines the normal vanishes, up to the rounding of
\* each velocity component to the model's unit), so the tangential velocity
\* is the same before and after the test; sphereVsCylinder never changes the
\* ball's vertical position or vertical velocity.
C21_TangentialUnchanged ==
    /\ ProbePenetrated =>
           LET d == ProbeOffset(probe.pre)
               dv == ProbeVelocityChange
               slack == Abs(d[1]) + Abs(d[2]) + Abs(d[3])
           IN  /\ Abs(dv[2] * d[3] - dv[3] * d[2]) <= slack
               /\ Abs(dv[3] * d[1] - dv[1] * d[3]) <= slack
               /\ Abs(dv[1] * d[2] - dv[2] * d[1]) <= slack
               /\ \A k \in 1..3 : d[k] = 0 => dv[k] = 0
    /\ probe.op = "cylinder" =>
           /\ heap[1].position[2] = probe.pre.position[2]
           /\ heap[1].velocity[2] = probe.pre.velocity[2]

\* a ball that struck the sphere on a diagonal with a velocity across the
\* normal: the test changed its velocity, and the velocity before the test
\* had a tangential part
C21_Witness ==
    /\ probe.op = "sphere"
    /\ ProbePenetrated
    /\ ProbeVelocityChange # <<0, 0, 0>>
    /\ LET d == ProbeOffset(probe.pre)
           v == probe.pre.velocity
       IN  v[1] * d[2] - v[2] * d[1] # 0

\* the last operation was sphereVsBox on a ball whose centre lay inside or on
\* the box: the closest point of the box is the centre itself
ProbeInsideBox ==
    /\ probe.op = "box"
    /\ OffsetFromBox(probe.pre, probe.static) = <<0, 0, 0>>

\* the ball was raised by its radius, with x, z, v_x and v_z as before
ProbeRaisedByRadius ==
    /\ heap[1].position = [probe.pre.position EXCEPT ![2] = @ + probe.pre.radius]
    /\ heap[1].velocity[1] = probe.pre.velocity[1]
    /\ heap[1].velocity[3] = probe.pre.velocity[3]

\* C22 as stated: with the ball's centre inside or on the box, sphereVsBox
\* raises y by the radius and forces the vertical velocity to a positive
\* value, leaving x, z, v_x and v_z unchanged.
C22_ContainmentForcesPositive ==
    ProbeInsideBox =>
        /\ ProbeRaisedByRadius
        /\ heap[1].velocity[2] > 0

\* C22: with the ball's centre inside or on the box, sphereVsBox raises y by
\* exactly the radius and sets the vertical velocity to restitution * |v_y|,
\* which is positive when v_y # 0 and 0 when v_y = 0; x, z, v_x and v_z are
\* unchanged.
C22_ContainmentRecovery ==
    ProbeInsideBox =>
        /\ ProbeRaisedByRadius
        /\ heap[1].velocity[2]
               = RoundDiv(Abs(probe.pre.velocity[2]) * restitutionNum, restitutionDen)
        /\ heap[1].velocity[2] >= 0
        /\ (heap[1].velocity[2] > 0) = (probe.pre.velocity[2] # 0)

\* a falling ball whose centre lay on the top face of the box left the test
\* rising
C22_Witness ==
    /\ ProbeInsideBox
    /\ probe.pre.position[2] = probe.static.max[2]
    /\ probe.pre.velocity[2] < 0
    /\ heap[1].velocity[2] > 0

\* the last test was sphereVsSphere on a ball whose centre was the centre of
\* the sphere, or sphereVsCylinder on a ball whose centre was on the axis of
\* the cylinder
ProbeDegenerate ==
    \/ /\ probe.op = "sphere"
       /\ probe.pre.position = probe.static.position
    \/ /\ probe.op = "cylinder"
       /\ probe.pre.position[1] = probe.static.position[1]
       /\ probe.pre.position[3] = probe.static.position[3]

\* C23: a ball whose centre coincides with the centre of a static sphere, or
\* lies on the vertical axis of a cylinder, leaves the test with its position
\* and velocity unchanged and without a call of onCollision.
C23_DegenerateSkipped ==
    ProbeDegenerate =>
        /\ heap[1] = probe.pre
        /\ probe.called = << >>

\* a falling ball on the axis of the cylinder, inside its height band, was
\* left as it was
C23_Witness ==
    /\ probe.op = "cylinder"
    /\ ProbeDegenerate
    /\ InBand(probe.pre, probe.static)
    /\ probe.pre.position # probe.static.position
    /\ probe.pre.velocity[2] < 0
    /\ heap[1] = probe.pre

\* v . d for the offset d that defines the contact normal of the last test:
\* the normal velocity times the distance
AcrossContact(v) ==
    LET d == ProbeOffset(probe.pre)
    IN  v[1] * d[1] + v[2] * d[2] + v[3] * d[3]

\* what the rounding of the model can add to 5 (v' . d) + (v . d): the
\* rounding of the velocity components and of the dot product to the unit,
\* and the rounding of the distance to the nearest unit
ContactRounding ==
    LET d == ProbeOffset(probe.pre)
        sq == d[1] * d[1] + d[2] * d[2] + d[3] * d[3]
        distance == Length(d[1], d[2], d[3])
        before == Abs(AcrossContact(probe.pre.velocity))
    IN  3 * (Abs(d[1]) + Abs(d[2]) + Abs(d[3])) + 4 * distance + 1
            + ((((6 * before) \div distance) + 1) * Abs(sq - distance * distance))
                  \div distance

RECURSIVE TestsInOrder(_, _, _)
TestsInOrder(out, sts, from) ==
    IF from > Len(sts) THEN out
    ELSE LET r == checkCollision(out.ball, sts[from])
         IN  CHOOSE last \in { TestsInOrder(next, sts, from + 1) :
                               next \in {Outcome(r.ball, out.called \o r.called)} } : TRUE

\* the ball of the last update after gravity, friction and the position step
ProbeIntegrated == Integrate(probe.pre, fixedDelta(probe.dt))

\* C24: in one Physics.update the body, after gravity, friction and the
\* position step, is tested against every static body once, in registration
\* order: the k-th test reads the ball that the tests 1..k-1 left, the ball
\* after the update is the result of that chain (and of the perturbation),
\* and onCollision is called for the struck bodies in registration order, at
\* most once each.
C24_TestsInRegistrationOrder ==
    probe.op \in {"sweep", "update"} =>
        LET out == TestsInOrder(Outcome(ProbeIntegrated, << >>), statics, 1)
        IN  /\ heap[1] = Perturb(out, probe.draw).ball
            /\ probe.called = out.called
            /\ \A i, j \in 1..Len(probe.called) :
                   i < j => \E a, b \in 1..Len(statics) :
                                /\ a < b
                                /\ statics[a] = probe.called[i]
                                /\ statics[b] = probe.called[j]

\* the floor would have touched the ball where the position step left it, but
\* the divider, registered before the floor, raised the ball out of the
\* floor's reach: the floor's test found no contact
C24_Witness ==
    /\ probe.op = "sweep"
    /\ \E k \in 2..Len(statics) :
           /\ checkCollision(ProbeIntegrated, statics[k]).ball # ProbeIntegrated
           /\ statics[k] \notin Range(probe.called)
           /\ \E a \in 1..(k - 1) :
                  checkCollision(ProbeIntegrated, statics[a]).ball # ProbeIntegrated

\* the events appended by the step
NewEvents == SubSeq(events', Len(events) + 1, Len(events'))

NewEventsOf(kind, id) ==
    {k \in 1..Len(NewEvents) : NewEvents[k].kind = kind /\ NewEvents[k].ball = id}

BodyIds(bls) == [k \in 1..Len(bls) |-> bls[k].body]

\* the ball is below the removal threshold y < -2
Fallen(ball) == heap[ball.body].position[2] < RemoveY

Staying(ball) == ~Fallen(ball)

\* the ball is unscored, below the scoring altitude and inside a slot's range
DueToScore(ball) ==
    /\ ~ball.scored
    /\ heap[ball.body].position[2] < ScoreY
    /\ \E k \in 1..numSlots : InSlot(heap[ball.body].position[1], slots[k])

\* C27: one PachinkoMachine.update examines each ball of the list once: every
\* ball with y < -2 is removed from the list and from the physics world in
\* that update, however many there are, the other balls stay in their order,
\* and each ball is scored once if it is due and not at all otherwise.
C27_SpliceInReverseLoop ==
    [][ probe'.op = "poll" =>
          /\ BodyIds(balls') = BodyIds(SelectSeq(balls, Staying))
          /\ bodies' = BodyIds(balls')
          /\ \A k \in 1..Len(balls) :
                 /\ Cardinality(NewEventsOf("remove", balls[k].body))
                        = (IF Fallen(balls[k]) THEN 1 ELSE 0)
                 /\ Cardinality(NewEventsOf("score", balls[k].body))
                        = (IF DueToScore(balls[k]) THEN 1 ELSE 0)
          /\ Len(NewEvents)
                 = Cardinality({k \in 1..Len(balls) : Fallen(balls[k])})
                   + Cardinality({k \in 1..Len(balls) : DueToScore(balls[k])})
      ]_vars

\* two balls next to each other in the list were both below the threshold
\* and one update removed both
C27_Witness ==
    /\ probe.op = "poll"
    /\ balls = << >>
    /\ \E a, b \in 1..Len(events) :
           /\ a < b
           /\ events[a].kind = "remove" /\ events[b].kind = "remove"
           /\ events[a].ball = events[b].ball + 1

\* one frame of a machine that holds the k-th ball of the list and no other,
\* with the frame time and that ball's random value of the step: Physics.update,
\* then PachinkoMachine.update
AloneFrame(k) ==
    LET id == balls[k].body
        h == PhysicsUpdate([i \in {id} |-> heap[id]], <<id>>, probe'.dt,
                           <<probe'.draw[IndexOf(bodies, id)]>>)
    IN  CHOOSE m \in { MachineUpdate(MachineState(id :> body, <<id>>, <<balls[k]>>,
                                                  0, << >>)) :
                       body \in {h[id]} } : TRUE

\* the events of the step that are about the ball, in their order
NewEventsAbout(id) == SelectSeq(NewEvents, LAMBDA e : e.ball = id)

\* C29: in a frame (Physics.update, then PachinkoMachine.update) each ball
\* fares as it would alone: its position, velocity and scored flag after the
\* frame, whether it is removed, and its score and removal events are those of
\* a machine holding only that ball, given the same frame time and the ball's
\* own random value; the score grows by the sum of what the balls score alone.
C29_BallsDoNotInteract ==
    [][ probe'.op = "frame" =>
          \E alone \in { [k \in 1..Len(balls) |-> AloneFrame(k)] } :
              /\ \A k \in 1..Len(balls) :
                     LET id == balls[k].body
                     IN  /\ (id \in Range(BodyIds(balls'))) = (alone[k].balls # << >>)
                         /\ (id \in Range(bodies')) = (alone[k].bodies # << >>)
                         /\ alone[k].balls # << >> =>
                                /\ heap'[id] = alone[k].heap[id]
                                /\ \E j \in 1..Len(balls') :
                                       balls'[j] = alone[k].balls[1]
                         /\ NewEventsAbout(id) = alone[k].events
              /\ LET RECURSIVE Sum(_)
                     Sum(k) == IF k = 0 THEN 0 ELSE alone[k].score + Sum(k - 1)
                 IN  score' = score + Sum(Len(balls))
      ]_vars

\* two balls overlapping each other went through a frame with different
\* random values, and both are still in play
C29_Witness ==
    /\ probe.op = "frame"
    /\ Len(balls) >= 2
    /\ probe.draw[1] # probe.draw[2]
    /\ LET a == heap[balls[1].body].position
           b == heap[balls[2].body].position
       IN  /\ a # b
           /\ (a[1] - b[1]) * (a[1] - b[1]) + (a[2] - b[2]) * (a[2] - b[2])
                  < 4 * ballRadius * ballRadius


\* ------------------------------------------------------------------------
\* PachinkoGame: launch power and ball inventory
\* ------------------------------------------------------------------------
\* the launches recorded so far
LaunchEvents == { e \in 1..Len(events) : events[e].kind = "launch" }

\* C25: the power of every launch lies between 0 and 1, whatever the order of
\* key presses, clicks, resets and frames: the charge is 0 when charging
\* starts, grows by 0.5 per second of frame time, never exceeds 1, and the
\* button launches with 0.5
C25_LaunchPowerInRange ==
    /\ [](/\ 0 <= game.launchPower
          /\ game.launchPower <= POWER
          /\ \A e \in LaunchEvents : 0 <= events[e].power /\ events[e].power <= POWER)
    /\ [][/\ (probe'.op = "keydown" /\ game'.isCharging) => game'.launchPower = 0
          /\ (probe'.op = "frame" /\ game.isCharging) =>
                 /\ game'.launchPower >= game.launchPower
                 /\ game'.launchPower = game.launchPower + probe'.dt
                    \/ game'.launchPower = POWER
          /\ (probe'.op = "click" /\ nextId' > nextId) =>
                 events'[Len(events')] = LaunchEvent(nextId', POWER \div 2)
          /\ (probe'.op = "keyup" /\ nextId' > nextId) =>
                 events'[Len(events')] = LaunchEvent(nextId', game.launchPower)]_vars

\* a ball is released at full power after the key was held over a frame
C25_Witness ==
    /\ probe.op = "keyup"
    /\ probe.pre.isCharging
    /\ probe.pre.launchPower = POWER
    /\ probe.called = <<nextId>>
    /\ tick >= 1
    /\ events[Len(events)] = LaunchEvent(nextId, POWER)
    /\ heap[nextId] = NewBallBody(POWER, 0)

\* the balls that had been created when resetGame last ran
CreatedAtLastReset ==
    LET resets == { e \in 1..Len(events) : events[e].kind = "reset" }
    IN  IF resets = {} THEN 0
        ELSE events[CHOOSE e \in resets : \A f \in resets : f <= e].ball

\* C26: the balls left stay between 0 and 10, the balls launched since the
\* last reset number 10 minus the balls left, and a launch attempted with no
\* ball left, by the button or by releasing Space, creates no ball
C26_BallInventory ==
    /\ [](/\ 0 <= game.ballsRemaining
          /\ game.ballsRemaining <= startBalls
          /\ nextId - CreatedAtLastReset = startBalls - game.ballsRemaining)
    /\ [][(game.ballsRemaining = 0 /\ probe'.op \in {"click", "keyup"}) =>
              /\ nextId' = nextId
              /\ balls' = balls
              /\ heap' = heap
              /\ game'.ballsRemaining = 0]_vars

\* Space is released with no ball left, the button having launched the last
\* one while Space was held
C26_Witness ==
    /\ probe.op = "keyup"
    /\ probe.pre.isCharging
    /\ probe.pre.ballsRemaining = 0
    /\ probe.called = << >>
    /\ probe.steps >= 1
    /\ events[Len(events)] = LaunchEvent(nextId, POWER \div 2)
    /\ ~game.isCharging
    /\ game.ballsRemaining = 0


\* ------------------------------------------------------------------------
\* PachinkoGame: the score across resets
\* ------------------------------------------------------------------------
\* the place in the history of the last reset, 0 when there was none
LastReset ==
    LET resets == { e \in 1..Len(events) : events[e].kind = "reset" }
    IN  IF resets = {} THEN 0 ELSE CHOOSE e \in resets : \A f \in resets : f <= e

\* the score events emitted since the last reset
ScoresSinceReset ==
    { e \in (LastReset + 1)..Len(events) : events[e].kind = "score" }

\* C28: after resetGame the score is 0 and the balls left are 10; no ball
\* launched before the reset changes the score afterwards; and the score is
\* the sum of the points of the score events emitted since the last reset
C28_ScoreSinceReset ==
    LET RECURSIVE Sum(_)
        Sum(S) == IF S = {} THEN 0
                  ELSE LET e == CHOOSE x \in S : TRUE
                       IN  events[e].points + Sum(S \ {e})
    IN  /\ score = Sum(ScoresSinceReset)
        /\ \A e \in ScoresSinceReset : events[e].ball > CreatedAtLastReset
        /\ (LastReset # 0 /\ nextId = CreatedAtLastReset) =>
               score = 0 /\ game.ballsRemaining = startBalls /\ balls = << >>
        /\ game.ballsRemaining = startBalls - (nextId - CreatedAtLastReset)

\* a ball scored, the game was reset, and a ball launched after the reset has
\* scored: the score is that ball's points alone
C28_Witness ==
    /\ LastReset # 0
    /\ \E e \in 1..(LastReset - 1) : events[e].kind = "score"
    /\ ScoresSinceReset # {}
    /\ score > 0
    /\ events[Len(events)].kind = "score"
    /\ score = events[Len(events)].points

====
